---- MODULE Spec2Model ----
(***************************************************************************)
(* RFGhost: the anomaly detection engine (src/anomaly_engine.py), the      *)
(* CC1101 transceiver driver (src/rf_interface.py), the logger             *)
(* (src/logger.py), the alert manager (src/alerts.py), the scan loop       *)
(* (src/main.py) and the HackRF interface                                  *)
(* (src/src/rfghost/core/hackrf_interface.py).                             *)
(*                                                                         *)
(* Numbers.  Python floats are modelled as scaled integers:                *)
(*   frequency      hundredths of a MHz   (433.92 MHz  -> 43392)           *)
(*   entropy        hundredths            (0.9         -> 90)              *)
(*   duration       hundredths of a second                                 *)
(*   pattern_match  hundredths                                             *)
(*   rssi           whole dBm                                              *)
(* A confidence is the exact rational num/den, kept as [num, den], den > 0.*)
(*                                                                         *)
(* A signal is a Python dict: a function whose DOMAIN is the set of keys   *)
(* it has.  Reading a key it lacks raises KeyError.                        *)
(***************************************************************************)
EXTENDS Integers, Sequences, FiniteSets, TLC

VARIABLES
    history,    \* AnomalyEngine.history
    returned,   \* the list the last detect_anomalies call returned
    outcome,    \* "none" before any call, "returned" / "raised" for the last call
    errors,     \* logger.error calls made by the last detect_anomalies call
    inserted,   \* every signal passed to detect_anomalies so far, in call order
    pc,         \* where the driver is: "uninit", inside a calibration wait, "ready", "failed"
    bus,        \* the spi.xfer transfers of the current (or last) driver operation
    _power_mode,        \* CC1101Interface._power_mode
    _last_calibration,  \* CC1101Interface._last_calibration
    now,        \* time.time(), in seconds
    call,       \* the current (or last) driver operation, with the state it started from
    result,     \* what that operation returned
    threads,    \* the threads inside a call: what each runs and where it is
    _lock,      \* RFLogger._lock: not created yet, free, or held by a thread
    last_alert_time,    \* AlertManager.last_alert_time
    alerts,     \* every send_alert call so far: type, time, throttled or not
    _running,   \* HackRFInterface._running
    _device,    \* HackRFInterface._device: None, or a HackRF handle
    scanning,   \* every start_scanning / stop_scanning call so far, in call order
    send,       \* AlertManager.retry_count and the send_alert call in progress (or the last one)
    running,    \* RFGhost.running
    run         \* where RFGhost.run is, and what it has done so far

engine_vars == <<history, returned, outcome, errors, inserted>>
driver_vars == <<pc, bus, _power_mode, _last_calibration, now, call, result>>
service_vars == <<threads, _lock, last_alert_time, alerts>>
hackrf_vars == <<_running, _device, scanning>>
send_vars == <<send>>
run_vars == <<running, run>>
app_vars == <<hackrf_vars, send_vars, run_vars>>
vars == <<history, returned, outcome, errors, inserted,
          pc, bus, _power_mode, _last_calibration, now, call, result,
          threads, _lock, last_alert_time, alerts,
          _running, _device, scanning, send, running, run>>

(* no AlertManager has been constructed *)
NoManager == [at |-> "none"]

(* threading.Lock(): not created yet, free, or held by thread t *)
NoLock == [state |-> "none", owner |-> 0]
Free == [state |-> "free", owner |-> 0]
HeldBy(t) == [state |-> "held", owner |-> t]

----------------------------------------------------------------------------
(* Bounds of the model *)

MaxCalls == 2
MaxInsert == 150

----------------------------------------------------------------------------
(* AnomalyThresholds defaults and AnomalyEngine.__init__ *)

rssi_high == -50
rssi_low == -90
entropy_threshold == 80
duration_threshold == 200
pattern_threshold == 70
history_size == 100

GHOST_ECHO == "ghost_echo"
VOID_PULSE == "void_pulse"
STATIC_BURST == "static_burst"
FREQ_SHIFT == "freq_shift"
PATTERN == "pattern"

AnomalyType == {GHOST_ECHO, VOID_PULSE, STATIC_BURST, FREQ_SHIFT, PATTERN}

----------------------------------------------------------------------------
(* Arithmetic helpers *)

Abs(x) == IF x < 0 THEN -x ELSE x
Min(a, b) == IF a < b THEN a ELSE b
Max(a, b) == IF a > b THEN a ELSE b

Has(signal, key) == key \in DOMAIN signal

----------------------------------------------------------------------------
(* What a detector call produces: None, an anomaly dict, or an exception *)

NoneResult == [tag |-> "none"]
Raised == [tag |-> "raise"]
Anomaly(type, confidence, details) ==
    [tag |-> "anomaly", type |-> type, confidence |-> confidence, details |-> details]

(* max(0, min(1, (rssi + 120) / 90)) *)
_calculate_signal_strength(rssi) ==
    [num |-> Max(0, Min(90, rssi + 120)), den |-> 90]

(* fault variant: rssi >= rssi_high instead of rssi > rssi_high *)
_detect_ghost_echo_ge(signal) ==
    IF ~Has(signal, "rssi") THEN Raised
    ELSE IF ~(signal["rssi"] >= rssi_high) THEN NoneResult
    ELSE IF ~Has(signal, "entropy") THEN Raised
    ELSE IF ~(signal["entropy"] > entropy_threshold) THEN NoneResult
    ELSE IF ~Has(signal, "frequency") THEN Raised
    ELSE Anomaly(GHOST_ECHO,
                 _calculate_signal_strength(signal["rssi"]),
                 [rssi |-> signal["rssi"], entropy |-> signal["entropy"],
                  frequency |-> signal["frequency"]])

_detect_ghost_echo(signal) ==
    IF ~Has(signal, "rssi") THEN Raised
    ELSE IF ~(signal["rssi"] > rssi_high) THEN NoneResult
    ELSE IF ~Has(signal, "entropy") THEN Raised
    ELSE IF ~(signal["entropy"] > entropy_threshold) THEN NoneResult
    ELSE IF ~Has(signal, "frequency") THEN Raised
    ELSE Anomaly(GHOST_ECHO,
                 _calculate_signal_strength(signal["rssi"]),
                 [rssi |-> signal["rssi"], entropy |-> signal["entropy"],
                  frequency |-> signal["frequency"]])

(* fault variant: the confidence is the strength itself, not 1 - strength *)
_detect_void_pulse_strength(signal) ==
    IF ~Has(signal, "rssi") THEN Raised
    ELSE IF ~(signal["rssi"] < rssi_low) THEN NoneResult
    ELSE IF ~Has(signal, "entropy") THEN Raised
    ELSE IF ~(signal["entropy"] > entropy_threshold) THEN NoneResult
    ELSE IF ~Has(signal, "frequency") THEN Raised
    ELSE Anomaly(VOID_PULSE,
                 _calculate_signal_strength(signal["rssi"]),
                 [rssi |-> signal["rssi"], entropy |-> signal["entropy"],
                  frequency |-> signal["frequency"]])

_detect_void_pulse(signal) ==
    IF ~Has(signal, "rssi") THEN Raised
    ELSE IF ~(signal["rssi"] < rssi_low) THEN NoneResult
    ELSE IF ~Has(signal, "entropy") THEN Raised
    ELSE IF ~(signal["entropy"] > entropy_threshold) THEN NoneResult
    ELSE IF ~Has(signal, "frequency") THEN Raised
    ELSE LET s == _calculate_signal_strength(signal["rssi"])
         IN Anomaly(VOID_PULSE,
                    [num |-> s.den - s.num, den |-> s.den],
                    [rssi |-> signal["rssi"], entropy |-> signal["entropy"],
                     frequency |-> signal["frequency"]])

(* prev_signal = self.history[-1] *)
prev_signal(h) == h[Len(h)]

_detect_static_burst(signal, h) ==
    IF Len(h) < 2 THEN NoneResult
    ELSE IF ~Has(signal, "rssi") \/ ~Has(prev_signal(h), "rssi") THEN Raised
    ELSE LET rssi_diff == Abs(signal["rssi"] - prev_signal(h)["rssi"])
         IN IF ~(rssi_diff > 20) THEN NoneResult
            ELSE IF ~Has(signal, "entropy") THEN Raised
            ELSE IF ~(signal["entropy"] > 90) THEN NoneResult
            ELSE IF ~Has(signal, "frequency") THEN Raised
            ELSE Anomaly(STATIC_BURST,
                         [num |-> Min(40, rssi_diff), den |-> 40],
                         [rssi_diff |-> rssi_diff, entropy |-> signal["entropy"],
                          frequency |-> signal["frequency"]])

_detect_frequency_shift(signal, h) ==
    IF Len(h) < 2 THEN NoneResult
    ELSE IF ~Has(signal, "frequency") \/ ~Has(prev_signal(h), "frequency") THEN Raised
    ELSE LET freq_diff == Abs(signal["frequency"] - prev_signal(h)["frequency"])
         IN IF ~(freq_diff > 10) THEN NoneResult
            ELSE Anomaly(FREQ_SHIFT,
                         [num |-> Min(100, freq_diff), den |-> 100],
                         [freq_diff |-> freq_diff,
                          old_freq |-> prev_signal(h)["frequency"],
                          new_freq |-> signal["frequency"]])

(* fault variant: the confidence is min(1.0, pattern_match) *)
_detect_signal_pattern_clamped(signal) ==
    IF ~Has(signal, "pattern_match") THEN NoneResult
    ELSE IF ~(signal["pattern_match"] > pattern_threshold) THEN NoneResult
    ELSE IF ~Has(signal, "frequency") THEN Raised
    ELSE Anomaly(PATTERN,
                 [num |-> Min(100, signal["pattern_match"]), den |-> 100],
                 [pattern_score |-> signal["pattern_match"],
                  frequency |-> signal["frequency"]])

_detect_signal_pattern(signal) ==
    IF ~Has(signal, "pattern_match") THEN NoneResult
    ELSE IF ~(signal["pattern_match"] > pattern_threshold) THEN NoneResult
    ELSE IF ~Has(signal, "frequency") THEN Raised
    ELSE Anomaly(PATTERN,
                 [num |-> signal["pattern_match"], den |-> 100],
                 [pattern_score |-> signal["pattern_match"],
                  frequency |-> signal["frequency"]])

----------------------------------------------------------------------------
(* detect_anomalies *)

(* fault variant: the pattern detector runs first *)
detection_methods_pattern_first == <<PATTERN, GHOST_ECHO, VOID_PULSE, STATIC_BURST, FREQ_SHIFT>>

(* self.detection_methods, in the order the loop calls them *)
detection_methods == <<GHOST_ECHO, VOID_PULSE, STATIC_BURST, FREQ_SHIFT, PATTERN>>

detector(type, signal, h) ==
    CASE type = GHOST_ECHO -> _detect_ghost_echo(signal)
      [] type = VOID_PULSE -> _detect_void_pulse(signal)
      [] type = STATIC_BURST -> _detect_static_burst(signal, h)
      [] type = FREQ_SHIFT -> _detect_frequency_shift(signal, h)
      [] type = PATTERN -> _detect_signal_pattern(signal)

(* fault variant: pop() instead of pop(0), which evicts the newest record *)
update_history_pop_newest(h, signal) ==
    LET appended == Append(h, signal)
    IN IF Len(appended) > history_size THEN SubSeq(appended, 1, Len(appended) - 1)
       ELSE appended

(* fault variant: the append without the eviction *)
update_history_no_evict(h, signal) == Append(h, signal)

(* self.history.append(signal); if len > history_size: pop(0) *)
update_history(h, signal) ==
    LET appended == Append(h, signal)
    IN IF Len(appended) > history_size THEN Tail(appended) ELSE appended

(* fault variant: no try/except around the detector call, so that a       *)
(* detector's exception ends detect_anomalies                              *)
try_detector_propagates(r, acc) ==
    CASE r.tag = "anomaly" -> [acc EXCEPT !.anomalies = Append(@, r)]
      [] r.tag = "raise" -> [acc EXCEPT !.raised = TRUE]
      [] OTHER -> acc

(* The body of the for loop: try: anomaly = detector(signal); if anomaly:  *)
(* anomalies.append(anomaly); except Exception: logger.error(...)          *)
try_detector(r, acc) ==
    CASE r.tag = "anomaly" -> [acc EXCEPT !.anomalies = Append(@, r)]
      [] r.tag = "raise" -> [acc EXCEPT !.errors = @ + 1]
      [] OTHER -> acc

RECURSIVE run_detectors(_, _, _, _)
run_detectors(i, signal, h, acc) ==
    IF i > Len(detection_methods) \/ acc.raised THEN acc
    ELSE run_detectors(i + 1, signal, h,
                       try_detector(detector(detection_methods[i], signal, h), acc))

(* what AnomalyEngine.detect_anomalies does to the engine *)
engine_detect_anomalies(signal) ==
    LET h == update_history(history, signal)
        acc == run_detectors(1, signal, h,
                             [anomalies |-> <<>>, errors |-> 0, raised |-> FALSE])
    IN /\ history' = h
       /\ returned' = IF acc.raised THEN <<>> ELSE acc.anomalies
       /\ outcome' = IF acc.raised THEN "raised" ELSE "returned"
       /\ errors' = acc.errors
       /\ inserted' = Append(inserted, signal)

detect_anomalies(signal) ==
    /\ engine_detect_anomalies(signal)
    /\ UNCHANGED <<driver_vars, service_vars, app_vars>>

----------------------------------------------------------------------------
(* The signals fed to the engine *)

(* frequencies the scan loop cycles through (config "frequencies") *)
Frequencies == <<43392, 43550>>

RssiVals == {-125, -100, -90, -50, -40, -20}
EntropyVals == {50, 90}
DurationVals == {100}
ScannedPatternVals == {0, 80}

Range(f) == {f[i] : i \in DOMAIN f}
Without(signal, keys) == [k \in (DOMAIN signal) \ keys |-> signal[k]]

(* SignalMetrics.__dict__ as scan_frequency builds it, scanned at time t;  *)
(* of its keys, the ones the engine never reads (lqi, crc_ok,              *)
(* signal_quality) are left out.  The sampling window is 1.0 s, and with   *)
(* no known pattern registered the pattern score is 0.0 or 0.8.            *)
ScannedSignals(t) ==
    [rssi : RssiVals, entropy : EntropyVals, frequency : Range(Frequencies),
     duration : DurationVals, pattern_match : ScannedPatternVals, timestamp : {t}]

(* detect_anomalies takes any Dict[str, Any]: dicts a caller builds by     *)
(* hand, which may lack keys and carry any pattern score above 0.7 that    *)
(* detect_signal_pattern's correlation branch can return.                  *)
CallerSignals(t) ==
    LET base == [rssi : {-100, -40}, entropy : {90}, frequency : {Frequencies[1]},
                 duration : {300}, pattern_match : {80, 150}, timestamp : {t}]
    IN {Without(s, keys) : s \in base,
                           keys \in {{}, {"duration", "pattern_match"},
                                     {"entropy"}, {"rssi"}, {"frequency"}}}

Signals(t) == ScannedSignals(t) \cup CallerSignals(t)

(* the record the scan loop feeds on its n-th scan when every scan reads   *)
(* the same levels: it cycles through the configured frequencies           *)
LoopSignal(n) ==
    [rssi |-> -40, entropy |-> 90, frequency |-> Frequencies[((n - 1) % Len(Frequencies)) + 1],
     duration |-> 100, pattern_match |-> 0, timestamp |-> n]

----------------------------------------------------------------------------
(* The CC1101 driver: registers, command strobes and bus transfers *)

CC1101_VERSION == 49
CC1101_FREQ2 == 13
CC1101_FREQ1 == 14
CC1101_FREQ0 == 15
CC1101_MDMCFG4 == 16
CC1101_MDMCFG3 == 17
CC1101_MDMCFG2 == 18
CC1101_DEVIATN == 21
CC1101_MCSM2 == 23
CC1101_MCSM1 == 24
CC1101_MCSM0 == 25
CC1101_AGCCTRL2 == 28
CC1101_AGCCTRL1 == 29
CC1101_AGCCTRL0 == 30
CC1101_FREND1 == 34
CC1101_FREND0 == 35
CC1101_FSCAL3 == 36
CC1101_FSCAL2 == 37
CC1101_FSCAL1 == 38
CC1101_FSCAL0 == 39
CC1101_RSSI == 52
CC1101_LQI == 53
CC1101_MARCSTATE == 54

CC1101_SRES == 48
CC1101_SCAL == 51
CC1101_SRX == 52
CC1101_SIDLE == 54
CC1101_SPWD == 57

(* the version _verify_chip expects (0x14), the MARCSTATE value the        *)
(* calibration wait expects (0x01), and the recalibration interval         *)
ExpectedVersion == 20
MarcstateIdle == 1
_calibration_interval == 300

(* values the chip can answer: a version register of a CC1101 or of no     *)
(* chip at all, a MARCSTATE of a synthesizer still calibrating, and the    *)
(* RSSI and LQI bytes of a quiet channel                                   *)
VersionVals == {ExpectedVersion, 0}
MarcstateBusy == 8
RssiRaw == 68
LqiRaw == 40

(* the byte lists handed to spi.xfer: a command strobe, a register read    *)
(* (address | 0x80, then a dummy byte) and a register write                *)
Strobe(command) == <<command>>
ReadReq(address) == <<address + 128, 0>>
WriteReq(address, value) == <<address, value>>

(* a planned transfer, with the byte the chip answers (response[1]) *)
Planned(bytes, resp) == [bytes |-> bytes, resp |-> resp]

(* a transfer as it happened: ok is FALSE when spi.xfer raised *)
Xfer(bytes, ok, resp) == [bytes |-> bytes, ok |-> ok, resp |-> resp]

(* running a straight-line plan of transfers in which the k-th raises      *)
(* (k = 0 or k beyond the plan: none raises)                               *)
Raises(plan, k) == k \in 1..Len(plan)
Attempt(plan, k) ==
    IF Raises(plan, k)
    THEN [i \in 1..k |-> Xfer(plan[i].bytes, i < k, IF i < k THEN plan[i].resp ELSE 0)]
    ELSE [i \in 1..Len(plan) |-> Xfer(plan[i].bytes, TRUE, plan[i].resp)]
Shift(k, used) == IF k > used THEN k - used ELSE 0

(* the log keeps one entry for a transfer repeated unchanged, as the       *)
(* calibration wait does with its MARCSTATE reads                          *)
AppendOnce(log, xfer) ==
    IF Len(log) > 0 /\ log[Len(log)] = xfer THEN log ELSE Append(log, xfer)

----------------------------------------------------------------------------
(* Construction: _initialize_chip and what it calls *)

_reset_plan == <<Planned(Strobe(CC1101_SRES), 0)>>

_verify_chip_plan(version) == <<Planned(ReadReq(CC1101_VERSION), version)>>

(* fault variant: the version read is not compared with 0x14 *)
_verify_chip_any(version) == TRUE

_verify_chip(version) == version = ExpectedVersion

(* cc1101_settings: data_rate in tenths of a kbps, deviation in            *)
(* thousandths of a kHz; the defaults are 1.2 kbps and 45 kHz              *)
DefaultDataRate == 12
DefaultDeviation == 45000
DataRateVals == {5, 6, DefaultDataRate, 5000, 5010}
DeviationVals == {1586, 1587, DefaultDeviation, 380001}
SettingsVals ==
    {[data_rate |-> d, deviation |-> v] : d \in DataRateVals, v \in DeviationVals}

(* int(math.log2(num / den)) for num / den >= 1 *)
RECURSIVE FloorLog2(_, _)
FloorLog2(num, den) == IF 2 * den > num THEN 0 ELSE 1 + FloorLog2(num, 2 * den)

RECURSIVE Pow2(_)
Pow2(e) == IF e = 0 THEN 1 ELSE 2 * Pow2(e - 1)

(* int(num / den - c) when num / den < c: truncation towards zero *)
IntMinus(num, den, c) ==
    IF num % den = 0 THEN (num \div den) - c ELSE (num \div den) - c + 1

(* fault variant: the data rate is used as given *)
data_rate_in_range_always(data_rate) == TRUE

(* 0.6 <= data_rate <= 500 *)
data_rate_in_range(data_rate) == 6 <= data_rate /\ data_rate <= 5000

(* 1.587 <= deviation <= 380 *)
deviation_in_range(deviation) == 1587 <= deviation /\ deviation <= 380000

(* _configure_chip: data_rate * 1000 / 0.024 is data_rate * 12500 / 3 with *)
(* the data rate in tenths.  On Python's integers x & 0x0F is x mod 16 and *)
(* x >> 4 is the floor of x / 16, for negative x too.  The defaults give   *)
(* drate_e = 15, drate_m = -254, dev_e = 4, dev_m = -6: bytes 242, 240, 66 *)
_configure_chip_plan(settings) ==
    LET data_rate == IF data_rate_in_range(settings.data_rate)
                     THEN settings.data_rate ELSE DefaultDataRate
        drate_e == FloorLog2(data_rate * 12500, 3)
        drate_m == IntMinus(data_rate * 12500, 3 * Pow2(drate_e), 256)
        deviation == IF deviation_in_range(settings.deviation)
                     THEN settings.deviation ELSE DefaultDeviation
        dev_e == FloorLog2(deviation, 1587)
        dev_m == IntMinus(deviation, 1587 * Pow2(dev_e), 8)
    IN <<Planned(WriteReq(CC1101_MDMCFG2, 2), 0),
         Planned(WriteReq(CC1101_MDMCFG4, drate_e * 16 + (drate_m % 16)), 0),
         Planned(WriteReq(CC1101_MDMCFG3, (drate_m \div 16) % 256), 0),
         Planned(WriteReq(CC1101_DEVIATN, dev_e * 16 + (dev_m % 8)), 0),
         Planned(WriteReq(CC1101_AGCCTRL2, 3), 0),
         Planned(WriteReq(CC1101_AGCCTRL1, 64), 0),
         Planned(WriteReq(CC1101_AGCCTRL0, 145), 0),
         Planned(WriteReq(CC1101_FREND1, 182), 0),
         Planned(WriteReq(CC1101_FREND0, 16), 0),
         Planned(WriteReq(CC1101_FSCAL3, 233), 0),
         Planned(WriteReq(CC1101_FSCAL2, 42), 0),
         Planned(WriteReq(CC1101_FSCAL1, 0), 0),
         Planned(WriteReq(CC1101_FSCAL0, 31), 0),
         Planned(WriteReq(CC1101_MCSM0, 24), 0),
         Planned(WriteReq(CC1101_MCSM1, 63), 0),
         Planned(WriteReq(CC1101_MCSM2, 7), 0)>>

_calibrate_plan == <<Planned(Strobe(CC1101_SCAL), 0)>>

(* _initialize_chip up to the calibration wait, when the chip answers      *)
(* version and the k-th transfer raises.  status is "failed" (it returned  *)
(* False and __init__ raised RuntimeError), "waiting" (SCAL was sent, the  *)
(* wait for MARCSTATE begins) or "done" (SCAL raised inside                *)
(* _calibrate_frequency, which logs the error and returns).                *)
_initialize_chip(settings, version, k) ==
    LET head == _reset_plan \o _verify_chip_plan(version)
        config == _configure_chip_plan(settings)
    IN IF Raises(head, k) THEN [bus |-> Attempt(head, k), status |-> "failed"]
       ELSE IF ~_verify_chip(version) THEN [bus |-> Attempt(head, 0), status |-> "failed"]
       ELSE LET k2 == Shift(k, Len(head))
            IN IF Raises(config, k2)
               THEN [bus |-> Attempt(head, 0) \o Attempt(config, k2),
                     status |-> "failed"]
               ELSE LET k3 == Shift(k2, Len(config))
                    IN [bus |-> Attempt(head, 0) \o Attempt(config, 0)
                                    \o Attempt(_calibrate_plan, k3),
                        status |-> IF Raises(_calibrate_plan, k3) THEN "done" ELSE "waiting"]

----------------------------------------------------------------------------
(* Tuning, power modes and the scan *)

(* frequencies in hundredths of a MHz *)
in_band(freq) ==
    \/ (30000 <= freq /\ freq <= 34800)
    \/ (38700 <= freq /\ freq <= 46400)
    \/ (77900 <= freq /\ freq <= 92800)

(* freq_hz = int(freq_mhz * 1000000); freq_reg = int(freq_hz / 26e6 * 65536) *)
(* with freq in hundredths of a MHz: freq * 10000 * 65536 / 26000000,      *)
(* which is freq * 8192 / 325, truncated                                   *)
_calculate_freq_registers(freq) ==
    LET freq_reg == (freq * 8192) \div 325
    IN <<(freq_reg \div 65536) % 256, (freq_reg \div 256) % 256, freq_reg % 256>>

set_frequency_plan(freq) ==
    IF ~in_band(freq) THEN <<>>
    ELSE LET r == _calculate_freq_registers(freq)
         IN <<Planned(WriteReq(CC1101_FREQ2, r[1]), 0),
              Planned(WriteReq(CC1101_FREQ1, r[2]), 0),
              Planned(WriteReq(CC1101_FREQ0, r[3]), 0)>>

(* fault variant: no band check, every frequency is written *)
set_frequency_unchecked(freq, k) ==
    LET r == _calculate_freq_registers(freq)
        plan == <<Planned(WriteReq(CC1101_FREQ2, r[1]), 0),
                  Planned(WriteReq(CC1101_FREQ1, r[2]), 0),
                  Planned(WriteReq(CC1101_FREQ0, r[3]), 0)>>
    IN [bus |-> Attempt(plan, k), ok |-> ~Raises(plan, k)]

(* set_frequency: False for an out-of-band frequency and when a write      *)
(* raises (the exception is caught inside)                                 *)
set_frequency(freq, k) ==
    [bus |-> Attempt(set_frequency_plan(freq), k),
     ok |-> in_band(freq) /\ ~Raises(set_frequency_plan(freq), k)]

(* fault variant: the command is sent even when the mode is already set *)
set_power_mode_plan_always(mode, current) ==
    IF mode = "sleep" THEN <<Planned(Strobe(CC1101_SPWD), 0)>>
    ELSE IF mode = "idle" THEN <<Planned(Strobe(CC1101_SIDLE), 0)>>
    ELSE IF mode = "active" THEN <<Planned(Strobe(CC1101_SRX), 0)>>
    ELSE <<>>

set_power_mode_plan(mode, current) ==
    IF mode = current THEN <<>>
    ELSE IF mode = "sleep" THEN <<Planned(Strobe(CC1101_SPWD), 0)>>
    ELSE IF mode = "idle" THEN <<Planned(Strobe(CC1101_SIDLE), 0)>>
    ELSE IF mode = "active" THEN <<Planned(Strobe(CC1101_SRX), 0)>>
    ELSE <<>>

(* set_power_mode: when the strobe raises, self._power_mode is not reached *)
set_power_mode(mode, current, k) ==
    LET plan == set_power_mode_plan(mode, current)
    IN [bus |-> Attempt(plan, k),
        raised |-> Raises(plan, k),
        mode |-> IF Raises(plan, k) THEN current ELSE mode]

(* time.time() - self._last_calibration > self._calibration_interval *)
_check_calibration(time, last_calibration) ==
    time - last_calibration > _calibration_interval

(* the sample loop: get_rssi() then _read_register(CC1101_LQI), n times *)
RECURSIVE sample_plan(_)
sample_plan(n) ==
    IF n = 0 THEN <<>>
    ELSE <<Planned(ReadReq(CC1101_RSSI), RssiRaw), Planned(ReadReq(CC1101_LQI), LqiRaw)>>
             \o sample_plan(n - 1)

(* fault variant: the result of set_frequency is ignored *)
tuning_aborts_never(ok) == FALSE

(* if not self.set_frequency(freq_mhz): return None *)
tuning_aborts(ok) == ~ok

(* fault variant: an empty sample list is averaged as 0 *)
average_raises_never(n) == FALSE

(* sum(samples) / len(samples) raises ZeroDivisionError on an empty list *)
average_raises(n) == n = 0

(* fault variant: the scan leaves the receiver on *)
scan_exit_mode_active == "active"

(* self.set_power_mode('idle') before the record is returned *)
scan_exit_mode == "idle"

ScanNone(error) == [tag |-> "None", error |-> error]
ScanMetrics(freq, n) == [tag |-> "metrics", frequency |-> freq, samples |-> n]

(* scan_frequency after _check_calibration: freq is the frequency asked,   *)
(* mode is self._power_mode, the loop takes n samples and the k-th         *)
(* transfer raises.  Every exception ends in the except clause, which logs *)
(* it and returns None.                                                    *)
scan_rest(freq, mode, k, n) ==
    LET tune == set_frequency(freq, k)
    IN IF tuning_aborts(tune.ok)
       THEN [bus |-> tune.bus, mode |-> mode, result |-> ScanNone("set_frequency")]
       ELSE
       LET k2 == Shift(k, Len(set_frequency_plan(freq)))
           rx == set_power_mode("active", mode, k2)
       IN IF rx.raised
          THEN [bus |-> tune.bus \o rx.bus, mode |-> rx.mode, result |-> ScanNone("OSError")]
          ELSE
          LET k3 == Shift(k2, Len(set_power_mode_plan("active", mode)))
              reads == sample_plan(n)
          IN IF Raises(reads, k3)
             THEN [bus |-> tune.bus \o rx.bus \o Attempt(reads, k3), mode |-> rx.mode,
                   result |-> ScanNone("OSError")]
             ELSE IF average_raises(n)
             THEN [bus |-> tune.bus \o rx.bus \o Attempt(reads, 0), mode |-> rx.mode,
                   result |-> ScanNone("ZeroDivisionError")]
             ELSE
             LET k4 == Shift(k3, Len(reads))
                 idle == set_power_mode(scan_exit_mode, rx.mode, k4)
             IN [bus |-> tune.bus \o rx.bus \o Attempt(reads, 0) \o idle.bus,
                 mode |-> idle.mode,
                 result |-> IF idle.raised THEN ScanNone("OSError")
                            ELSE ScanMetrics(freq, n)]

----------------------------------------------------------------------------
(* The driver's operations *)

MaxSamples == 2

(* the transfers of a construction up to the SCAL strobe; a scan after    *)
(* its calibration makes at most 5 + 2n of them (3 frequency writes, SRX,  *)
(* 2 reads per sample, SIDLE)                                              *)
InitXfers ==
    Len(_reset_plan) + 1
        + Len(_configure_chip_plan([data_rate |-> DefaultDataRate, deviation |-> DefaultDeviation]))
        + Len(_calibrate_plan)

ScanFreqs == {43392, 35000}
PowerModes == {"sleep", "idle", "active", "standby"}

(* the wall clock: the times at which the model looks at it *)
Times == {1000, 1300, 1301, 1700}
StartTime == CHOOSE t \in Times : \A u \in Times : t <= u

Call(op, arg) ==
    [op |-> op, arg |-> arg, mode0 |-> _power_mode,
     elapsed0 |-> now - _last_calibration, time0 |-> now]

(* CC1101Interface(config={"cc1101_settings": settings}): __init__ sets the state variables and runs        *)
(* _initialize_chip                                                        *)
Construct(settings, version, k) ==
    LET init == _initialize_chip(settings, version, k)
    IN /\ pc = "uninit"
       /\ call' = [op |-> "__init__", arg |-> settings, mode0 |-> "none",
                   elapsed0 |-> now, time0 |-> now]
       /\ _last_calibration' = 0
       /\ _power_mode' = "active"
       /\ bus' = init.bus
       /\ pc' = CASE init.status = "failed" -> "failed"
                  [] init.status = "waiting" -> "init_cal_poll"
                  [] OTHER -> "ready"
       /\ result' = CASE init.status = "failed" -> [tag |-> "RuntimeError"]
                      [] init.status = "waiting" -> [tag |-> "pending"]
                      [] OTHER -> [tag |-> "constructed"]
       /\ UNCHANGED <<now, engine_vars, app_vars, service_vars>>

(* fault variant: the time is recorded however the wait ends *)
calibration_stamp_always(read, time, last_calibration) == time

(* self._last_calibration = time.time(), reached only when the wait has    *)
(* read idle; a transfer that raises skips it                              *)
calibration_stamp(read, time, last_calibration) ==
    IF read = "idle" THEN time ELSE last_calibration

(* one pass of the wait in _calibrate_frequency:                           *)
(* while self._read_register(CC1101_MARCSTATE) != 0x01                     *)
(* read is what the chip does: "idle", "busy", or "error" (xfer raises,    *)
(* which _calibrate_frequency catches).  When the wait ends inside         *)
(* __init__ the driver is constructed; inside scan_frequency the scan goes *)
(* on with scan_rest.                                                      *)
CalibrationPoll(read, k, n) ==
    LET xfer == Xfer(ReadReq(CC1101_MARCSTATE), read # "error",
                     CASE read = "idle" -> MarcstateIdle
                       [] read = "busy" -> MarcstateBusy
                       [] OTHER -> 0)
        log == AppendOnce(bus, xfer)
    IN /\ pc \in {"init_cal_poll", "scan_cal_poll"}
       /\ IF read = "busy"
          THEN /\ pc' = IF pc = "init_cal_poll" THEN "init_cal_sleep" ELSE "scan_cal_sleep"
               /\ bus' = log
               /\ UNCHANGED <<_power_mode, _last_calibration, result>>
          ELSE /\ _last_calibration' = calibration_stamp(read, now, _last_calibration)
               /\ pc' = "ready"
               /\ IF pc = "init_cal_poll"
                  THEN /\ bus' = log
                       /\ result' = [tag |-> "constructed"]
                       /\ UNCHANGED _power_mode
                  ELSE LET r == scan_rest(call.arg, _power_mode, k, n)
                       IN /\ bus' = log \o r.bus
                          /\ _power_mode' = r.mode
                          /\ result' = r.result
       /\ UNCHANGED <<now, call, engine_vars, app_vars, service_vars>>

(* time.sleep(0.01) in the wait *)
CalibrationSleep ==
    /\ pc \in {"init_cal_sleep", "scan_cal_sleep"}
    /\ pc' = IF pc = "init_cal_sleep" THEN "init_cal_poll" ELSE "scan_cal_poll"
    /\ UNCHANGED <<bus, _power_mode, _last_calibration, now, call, result, engine_vars, app_vars, service_vars>>

(* interface.scan_frequency(freq): calfail says that the SCAL strobe       *)
(* raises                                                                  *)
ScanFrequency(freq, calfail, k, n) ==
    /\ pc = "ready"
    /\ call' = Call("scan_frequency", freq)
    /\ IF _check_calibration(now, _last_calibration)
       THEN IF calfail
            THEN LET r == scan_rest(freq, _power_mode, k, n)
                 IN /\ bus' = Attempt(_calibrate_plan, 1) \o r.bus
                    /\ _power_mode' = r.mode
                    /\ result' = r.result
                    /\ UNCHANGED pc
            ELSE /\ bus' = Attempt(_calibrate_plan, 0)
                 /\ pc' = "scan_cal_poll"
                 /\ result' = [tag |-> "pending"]
                 /\ UNCHANGED _power_mode
       ELSE LET r == scan_rest(freq, _power_mode, k, n)
            IN /\ bus' = r.bus
               /\ _power_mode' = r.mode
               /\ result' = r.result
               /\ UNCHANGED pc
    /\ UNCHANGED <<_last_calibration, now, engine_vars, app_vars, service_vars>>

(* interface.set_frequency(freq) *)
SetFrequency(freq, k) ==
    LET r == set_frequency(freq, k)
    IN /\ pc = "ready"
       /\ call' = Call("set_frequency", freq)
       /\ bus' = r.bus
       /\ result' = [tag |-> "returned", value |-> r.ok]
       /\ UNCHANGED <<pc, _power_mode, _last_calibration, now, engine_vars, app_vars, service_vars>>

(* interface.set_power_mode(mode) *)
SetPowerMode(mode, k) ==
    LET r == set_power_mode(mode, _power_mode, k)
    IN /\ pc = "ready"
       /\ call' = Call("set_power_mode", mode)
       /\ bus' = r.bus
       /\ _power_mode' = r.mode
       /\ result' = [tag |-> IF r.raised THEN "OSError" ELSE "returned"]
       /\ UNCHANGED <<pc, _last_calibration, now, engine_vars, app_vars, service_vars>>

(* interface.close(): set_power_mode('sleep') then self.spi.close(), both   *)
(* inside one try whose except clause only logs.  pc = "closed" says that  *)
(* spi.close() was called; when the SPWD transfer raises it is skipped and *)
(* the handle stays open                                                   *)
Close(k) ==
    LET r == set_power_mode("sleep", _power_mode, k)
    IN /\ pc = "ready"
       /\ call' = Call("close", 0)
       /\ bus' = r.bus
       /\ _power_mode' = r.mode
       /\ pc' = IF r.raised THEN "ready" ELSE "closed"
       /\ result' = [tag |-> "returned"]
       /\ UNCHANGED <<_last_calibration, now, engine_vars, app_vars, service_vars>>

(* time passes between two operations *)
Tick ==
    /\ pc = "ready"
    /\ \E t \in Times : t > now /\ now' = t
    /\ UNCHANGED <<pc, bus, _power_mode, _last_calibration, call, result, engine_vars, app_vars, service_vars>>

NextDriver ==
    \/ \E settings \in SettingsVals, version \in VersionVals, k \in 0..InitXfers :
          Construct(settings, version, k)
    \/ \E read \in {"idle", "busy", "error"} :
          IF pc = "scan_cal_poll" /\ read # "busy"
          THEN \E n \in 0..MaxSamples : \E k \in 0..(5 + 2 * n) : CalibrationPoll(read, k, n)
          ELSE CalibrationPoll(read, 0, 0)
    \/ CalibrationSleep
    \/ \E freq \in ScanFreqs :
          IF _check_calibration(now, _last_calibration)
          THEN \/ ScanFrequency(freq, FALSE, 0, 0)
               \/ \E n \in 0..MaxSamples : \E k \in 0..(5 + 2 * n) :
                     ScanFrequency(freq, TRUE, k, n)
          ELSE \E n \in 0..MaxSamples : \E k \in 0..(5 + 2 * n) :
                  ScanFrequency(freq, FALSE, k, n)
    \/ \E freq \in ScanFreqs, k \in 0..3 : SetFrequency(freq, k)
    \/ \E mode \in PowerModes, k \in 0..1 : SetPowerMode(mode, k)
    \/ \E k \in 0..1 : Close(k)
    \/ Tick

----------------------------------------------------------------------------
(* The driver's arithmetic: RSSI decode, frequency registers and the       *)
(* metrics of a scan.  signal_quality and the record's entropy are in      *)
(* hundredths, as round(x, 2) leaves them; the roundings are taken on the  *)
(* exact value.                                                            *)

(* int(x) of the rational num/den, den > 0: truncation towards zero *)
Trunc(num, den) == IF num >= 0 THEN num \div den ELSE -((-num) \div den)

(* round(x) of the rational num/den, den > 0: to the nearest, ties to even *)
Round(num, den) ==
    LET q == num \div den
        r == num % den
    IN CASE 2 * r < den -> q
         [] 2 * r > den -> q + 1
         [] OTHER -> IF q % 2 = 0 THEN q ELSE q + 1

(* get_rssi: // is floor division *)
get_rssi(raw) ==
    IF raw >= 128 THEN ((raw - 256) \div 2) - 74 ELSE (raw \div 2) - 74

RECURSIVE Sum(_)
Sum(seq) == IF seq = <<>> THEN 0 ELSE seq[1] + Sum(Tail(seq))

(* math.log2 of a sample count, in millionths *)
Log2 == <<0, 1000000, 1584963, 2000000, 2321928, 2584963>>

(* calculate_entropy: -sum(p * log2(p)) over the value counts, p = count / *)
(* len(samples); in millionths it is (n*log2(n) - sum(c*log2(c))) / n      *)
calculate_entropy(samples) ==
    IF samples = <<>> THEN [num |-> 0, den |-> 1]
    ELSE LET n == Len(samples)
             values == {samples[i] : i \in DOMAIN samples}
             count(v) == Cardinality({i \in DOMAIN samples : samples[i] = v})
             counts == [i \in 1..n |-> IF \E j \in 1..(i - 1) : samples[j] = samples[i]
                                       THEN 0
                                       ELSE count(samples[i]) * Log2[count(samples[i])]]
         IN [num |-> n * Log2[n] - Sum(counts), den |-> n]

(* calculate_signal_quality: 0.7 * (rssi + 120) / 120 + 0.3 * lqi / 255 *)
calculate_signal_quality(rssi, lqi) ==
    [num |-> 7 * (rssi + 120) * 255 + 3 * lqi * 120, den |-> 10 * 120 * 255]

(* the record scan_frequency builds from the bytes its sample loop read *)
SignalMetrics(freq, raw, lqi) ==
    LET samples == [i \in DOMAIN raw |-> get_rssi(raw[i])]
        avg_rssi == Trunc(Sum(samples), Len(samples))
        avg_lqi == Trunc(Sum(lqi), Len(lqi))
        entropy == calculate_entropy(samples)
        quality == calculate_signal_quality(avg_rssi, avg_lqi)
    IN [tag |-> "metrics", frequency |-> freq, samples |-> Len(raw),
        rssi |-> avg_rssi, lqi |-> avg_lqi,
        entropy |-> Round(entropy.num, entropy.den * 10000),
        signal_quality |-> Round(quality.num * 100, quality.den)]

MaxWindow == 4

RawVals == {0, 127, 128, 255}
LqiVals == {0, 4, 128, 255}
FreqInputs == {30000, 31500, 39000, 43300, 43392, 86800, 91500}

RECURSIVE Seqs(_, _)
Seqs(S, n) ==
    IF n = 0 THEN {<<>>}
    ELSE {Append(seq, x) : seq \in Seqs(S, n - 1), x \in S}

(* the readings of a sample loop: any byte for a single sample, the bytes  *)
(* of RawVals in every order for longer windows; the LQI is steady         *)
Windows ==
    {[raw |-> <<b>>, lqi |-> <<q>>] : b \in 0..255, q \in LqiVals}
    \cup UNION {{[raw |-> seq, lqi |-> [i \in 1..n |-> q]] :
                    seq \in Seqs(RawVals, n), q \in LqiVals} : n \in 2..MaxWindow}

CodecCalls ==
    {[op |-> "get_rssi", arg |-> raw] : raw \in 0..255}
    \cup {[op |-> "_calculate_freq_registers", arg |-> freq] : freq \in FreqInputs}
    \cup {[op |-> "metrics", arg |-> w] : w \in Windows}

(* interface.get_rssi() when the RSSI register holds call.arg *)
GetRssi ==
    /\ pc = "ready"
    /\ call.op = "get_rssi"
    /\ result.tag = "pending"
    /\ bus' = <<Xfer(ReadReq(CC1101_RSSI), TRUE, call.arg)>>
    /\ result' = [tag |-> "returned", value |-> get_rssi(call.arg)]
    /\ UNCHANGED <<pc, _power_mode, _last_calibration, now, call, engine_vars, app_vars, service_vars>>

(* self._calculate_freq_registers(call.arg) *)
CalculateFreqRegisters ==
    /\ pc = "ready"
    /\ call.op = "_calculate_freq_registers"
    /\ result.tag = "pending"
    /\ result' = [tag |-> "returned", value |-> _calculate_freq_registers(call.arg)]
    /\ UNCHANGED <<pc, bus, _power_mode, _last_calibration, now, call, engine_vars, app_vars, service_vars>>

(* the end of a scan whose sample loop read call.arg: the averages, the    *)
(* entropy, the quality and the record                                     *)
ComputeMetrics ==
    /\ pc = "ready"
    /\ call.op = "metrics"
    /\ result.tag = "pending"
    /\ result' = SignalMetrics(Frequencies[1], call.arg.raw, call.arg.lqi)
    /\ UNCHANGED <<pc, bus, _power_mode, _last_calibration, now, call, engine_vars, app_vars, service_vars>>

NextCodec == GetRssi \/ CalculateFreqRegisters \/ ComputeMetrics

----------------------------------------------------------------------------
(* The scan loop of RFGhost.run: scan a frequency, then detect_anomalies   *)
(* on what the scan returned                                               *)

(* the dict rf_interface.scan_frequency returns when the driver's scan     *)
(* returned None (of its keys, the ones the engine reads)                  *)
DefaultSignal(freq, t) ==
    [frequency |-> freq, rssi |-> -120, duration |-> 0, entropy |-> 0,
     pattern_match |-> 0, timestamp |-> t]

(* rf_interface.scan_frequency: result.__dict__, or the default dict.  The *)
(* window is 1.0 s, and with at most MaxSamples samples and no known       *)
(* pattern the pattern score is 0.0                                        *)
module_scan_frequency(freq, res, t) ==
    IF res.tag = "None" THEN DefaultSignal(freq, t)
    ELSE LET m == SignalMetrics(freq, [i \in 1..res.samples |-> RssiRaw],
                                [i \in 1..res.samples |-> LqiRaw])
         IN [frequency |-> freq, rssi |-> m.rssi, duration |-> 100, entropy |-> m.entropy,
             pattern_match |-> 0, timestamp |-> t]

(* signal_data = self._scan_frequency(freq) *)
LoopScan(freq, calfail, k, n) ==
    /\ call.op # "scan_frequency"
    /\ Len(inserted) < MaxCalls
    /\ ScanFrequency(freq, calfail, k, n)

(* if signal_data is None: continue; anomalies = detect_anomalies(...)     *)
(* _scan_frequency returns None only when rf_interface.scan_frequency      *)
(* raises, which it does not once the driver is constructed                *)
LoopDetect ==
    /\ pc = "ready"
    /\ call.op = "scan_frequency"
    /\ engine_detect_anomalies(module_scan_frequency(call.arg, result, now))
    /\ call' = [call EXCEPT !.op = "detect_anomalies"]
    /\ UNCHANGED <<pc, bus, _power_mode, _last_calibration, now, result, service_vars, app_vars>>

NextLoop ==
    \/ \E version \in VersionVals, k \in 0..InitXfers :
          Construct([data_rate |-> DefaultDataRate, deviation |-> DefaultDeviation],
                    version, k)
    \/ \E read \in {"idle", "busy", "error"} :
          IF pc = "scan_cal_poll" /\ read # "busy"
          THEN \E n \in 0..MaxSamples : \E k \in 0..(5 + 2 * n) : CalibrationPoll(read, k, n)
          ELSE CalibrationPoll(read, 0, 0)
    \/ CalibrationSleep
    \/ \E freq \in ScanFreqs :
          IF _check_calibration(now, _last_calibration)
          THEN \/ LoopScan(freq, FALSE, 0, 0)
               \/ \E n \in 0..MaxSamples : \E k \in 0..(5 + 2 * n) :
                     LoopScan(freq, TRUE, k, n)
          ELSE \E n \in 0..MaxSamples : \E k \in 0..(5 + 2 * n) :
                  LoopScan(freq, FALSE, k, n)
    \/ LoopDetect
    \/ Tick

----------------------------------------------------------------------------
(* Two threads on one driver instance (the singleton of get_rf_interface). *)
(* CC1101Interface holds no lock: a thread switch can fall between any two *)
(* spi.xfer calls.  A step is one statement of the operation a thread      *)
(* runs: one register transfer, or one set_power_mode.                     *)

ThreadIds == {1, 2}

ThreadCalls ==
    {[op |-> "set_frequency", arg |-> Frequencies[1]],
     [op |-> "set_power_mode", arg |-> "idle"],
     [op |-> "scan_frequency", arg |-> Frequencies[1]]}

(* the statements of an operation when no calibration is due and no        *)
(* transfer raises; the scan takes one sample                              *)
Statements(c) ==
    LET xfers(plan) == [i \in DOMAIN plan |-> [kind |-> "xfer", xfer |-> plan[i]]]
    IN CASE c.op = "set_frequency" -> xfers(set_frequency_plan(c.arg))
         [] c.op = "set_power_mode" -> <<[kind |-> "mode", mode |-> c.arg]>>
         [] c.op = "scan_frequency" ->
               xfers(set_frequency_plan(c.arg))
                  \o <<[kind |-> "mode", mode |-> "active"]>>
                  \o xfers(sample_plan(1))
                  \o <<[kind |-> "mode", mode |-> scan_exit_mode]>>

(* a transfer on the shared bus and the thread that made it *)
By(xfer, t) == [bytes |-> xfer.bytes, ok |-> xfer.ok, resp |-> xfer.resp, by |-> t]

(* thread t calls a public operation of the driver *)
ThreadCall(t, c) ==
    /\ pc = "ready"
    /\ threads[t].op = "none"
    /\ threads' = [threads EXCEPT ![t] = [op |-> c.op, arg |-> c.arg, at |-> 1]]
    /\ UNCHANGED <<pc, bus, _power_mode, _last_calibration, now, call, result,
                   engine_vars, app_vars, _lock, last_alert_time, alerts>>

(* thread t runs its next statement *)
ThreadStep(t) ==
    /\ threads[t].op \notin {"none", "returned"}
    /\ LET stmts == Statements(threads[t])
           st == stmts[threads[t].at]
           transfers == IF st.kind = "xfer" THEN Attempt(<<st.xfer>>, 0)
                        ELSE Attempt(set_power_mode_plan(st.mode, _power_mode), 0)
       IN /\ bus' = bus \o [i \in DOMAIN transfers |-> By(transfers[i], t)]
          /\ _power_mode' = IF st.kind = "mode" THEN st.mode ELSE _power_mode
          /\ threads' = [threads EXCEPT ![t] =
                            IF threads[t].at = Len(stmts)
                            THEN [op |-> "returned", arg |-> threads[t].arg, at |-> 0]
                            ELSE [threads[t] EXCEPT !.at = @ + 1]]
    /\ UNCHANGED <<pc, _last_calibration, now, call, result,
                   engine_vars, app_vars, _lock, last_alert_time, alerts>>

NextThreads ==
    \/ \E t \in ThreadIds, c \in ThreadCalls : ThreadCall(t, c)
    \/ \E t \in ThreadIds : ThreadStep(t)

----------------------------------------------------------------------------
(* RFLogger (src/logger.py): _lock is a threading.Lock, which is not       *)
(* reentrant: acquire blocks while the lock is held, whoever holds it.     *)
(* A thread inside a call is at "lock" (the with self._lock of  *)
(* log_signal / log_anomaly), at "rotate_lock" (the with self._lock of     *)
(* _rotate_if_needed) or at "rotate" (the body of _rotate_if_needed).      *)

LogCalls ==
    {[op |-> "log_signal", arg |-> f] : f \in Range(Frequencies)}
    \cup {[op |-> "log_anomaly", arg |-> type] : type \in AnomalyType}

InCall(t) == threads[t].op \notin {"none", "returned"}

(* get_rf_logger() creating the singleton: RFLogger.__init__ makes the     *)
(* lock and calls _rotate_if_needed                                        *)
LoggerConstruct(t) ==
    /\ _lock = NoLock
    /\ ~InCall(t)
    /\ _lock' = Free
    /\ threads' = [threads EXCEPT ![t] = [op |-> "__init__", arg |-> 0, at |-> "rotate_lock"]]
    /\ UNCHANGED <<driver_vars, engine_vars, app_vars, last_alert_time, alerts>>

(* thread t calls log_signal or log_anomaly on the logger get_rf_logger    *)
(* returned                                                                *)
LogCall(t, c) ==
    /\ _lock # NoLock
    /\ \A u \in ThreadIds : threads[u].op # "__init__"
    /\ ~InCall(t)
    /\ threads' = [threads EXCEPT ![t] = [op |-> c.op, arg |-> c.arg, at |-> "lock"]]
    /\ UNCHANGED <<driver_vars, engine_vars, app_vars, _lock, last_alert_time, alerts>>

(* with self._lock: in log_signal / log_anomaly, then the call of          *)
(* self._rotate_if_needed()                                                *)
AcquireLock(t) ==
    /\ threads[t].at = "lock"
    /\ _lock = Free
    /\ _lock' = HeldBy(t)
    /\ threads' = [threads EXCEPT ![t].at = "rotate_lock"]
    /\ UNCHANGED <<driver_vars, engine_vars, app_vars, last_alert_time, alerts>>

(* with self._lock: in _rotate_if_needed *)
AcquireRotateLock(t) ==
    /\ threads[t].at = "rotate_lock"
    /\ _lock = Free
    /\ _lock' = HeldBy(t)
    /\ threads' = [threads EXCEPT ![t].at = "rotate"]
    /\ UNCHANGED <<driver_vars, engine_vars, app_vars, last_alert_time, alerts>>

(* the body of _rotate_if_needed and the end of its with block, which      *)
(* releases the lock; __init__ then returns, and log_signal / log_anomaly  *)
(* would write the line and return True                                    *)
Rotate(t) ==
    /\ threads[t].at = "rotate"
    /\ _lock' = Free
    /\ threads' = [threads EXCEPT ![t] = [op |-> "returned", arg |-> threads[t].arg, at |-> "out"]]
    /\ UNCHANGED <<driver_vars, engine_vars, app_vars, last_alert_time, alerts>>

LoggerThread(t) == AcquireLock(t) \/ AcquireRotateLock(t) \/ Rotate(t)

NextLogger ==
    \/ \E t \in ThreadIds : LoggerConstruct(t)
    \/ \E t \in ThreadIds, c \in LogCalls : LogCall(t, c)
    \/ \E t \in ThreadIds : AcquireLock(t)
    \/ \E t \in ThreadIds : AcquireRotateLock(t)
    \/ \E t \in ThreadIds : Rotate(t)

----------------------------------------------------------------------------
(* AlertManager (src/alerts.py): the per-type cooldown of send_alert *)

MaxAlerts == 4

AlertTypes == {GHOST_ECHO, VOID_PULSE}

(* the values time.time() takes at the calls: the wall clock may be set    *)
(* back between two of them                                                *)
AlertTimes == {StartTime, StartTime + 59, StartTime + 60, StartTime + 119, StartTime + 120}

(* fault variant: one cooldown shared by all types *)
_should_throttle_any_type(anomaly_type, current_time, last) ==
    \E type \in DOMAIN last : current_time - last[type] < 60

(* _should_throttle, without its update of last_alert_time *)
_should_throttle(anomaly_type, current_time, last) ==
    anomaly_type \in DOMAIN last /\ current_time - last[anomaly_type] < 60

(* self.last_alert_time[anomaly_type] = current_time *)
Stamp(last, anomaly_type, current_time) ==
    [type \in (DOMAIN last) \cup {anomaly_type} |->
        IF type = anomaly_type THEN current_time ELSE last[type]]

(* send_alert(anomaly): throttled, or stamped and posted to the webhook;   *)
(* whether a post succeeds changes only the value returned                 *)
SendAlert(anomaly_type) ==
    LET throttled == _should_throttle(anomaly_type, now, last_alert_time)
    IN /\ Len(alerts) < MaxAlerts
       /\ last_alert_time' = IF throttled THEN last_alert_time
                             ELSE Stamp(last_alert_time, anomaly_type, now)
       /\ alerts' = Append(alerts, [type |-> anomaly_type, time |-> now,
                                    throttled |-> throttled])
       /\ UNCHANGED <<driver_vars, engine_vars, app_vars, threads, _lock>>

(* time passes, or the clock is set *)
AlertTick ==
    /\ \E t \in AlertTimes : t # now /\ now' = t
    /\ UNCHANGED <<pc, bus, _power_mode, _last_calibration, call, result,
                   engine_vars, app_vars, service_vars>>

NextAlerts ==
    \/ \E type \in AlertTypes : SendAlert(type)
    \/ AlertTick

----------------------------------------------------------------------------
(* HackRFInterface (src/src/rfghost/core/hackrf_interface.py): the running *)
(* flag and the device handle                                              *)

MaxScanning == 4

(* where _setup_device fails: nowhere, in HackRF(), or in one of the       *)
(* attribute assignments that follow it                                    *)
SetupFaults == {"none", "open", "configure"}

(* _setup_device: the handle is stored before it is configured *)
_setup_device(fault) ==
    [_device |-> CASE fault = "open" -> "None"
                   [] fault = "configure" -> "unconfigured"
                   [] OTHER -> "configured",
     raised |-> fault # "none"]

(* fault variant: the flag is set before the device is set up *)
start_scanning_flag_first(flag, device, fault) ==
    IF flag THEN [_running |-> TRUE, _device |-> device, raised |-> FALSE]
    ELSE IF device = "None"
    THEN LET setup == _setup_device(fault)
         IN [_running |-> TRUE, _device |-> setup._device, raised |-> setup.raised]
    ELSE [_running |-> TRUE, _device |-> device, raised |-> FALSE]

(* start_scanning: the flag, the handle and whether the call raised *)
start_scanning(flag, device, fault) ==
    IF flag THEN [_running |-> TRUE, _device |-> device, raised |-> FALSE]
    ELSE IF device = "None"
    THEN LET setup == _setup_device(fault)
         IN [_running |-> ~setup.raised, _device |-> setup._device,
             raised |-> setup.raised]
    ELSE [_running |-> TRUE, _device |-> device, raised |-> FALSE]

(* stop_scanning: the flag goes first; a close() that raises keeps the     *)
(* handle                                                                  *)
stop_scanning(device, close_raises) ==
    [_running |-> FALSE,
     _device |-> IF device # "None" /\ ~close_raises THEN "None" ELSE device,
     raised |-> FALSE]

StartScanning(fault) ==
    LET r == start_scanning(_running, _device, fault)
    IN /\ Len(scanning) < MaxScanning
       /\ _running' = r._running
       /\ _device' = r._device
       /\ scanning' = Append(scanning, [op |-> "start_scanning", raised |-> r.raised])
       /\ UNCHANGED <<engine_vars, driver_vars, service_vars, send_vars, run_vars>>

StopScanning(close_raises) ==
    LET r == stop_scanning(_device, close_raises)
    IN /\ Len(scanning) < MaxScanning
       /\ _running' = r._running
       /\ _device' = r._device
       /\ scanning' = Append(scanning, [op |-> "stop_scanning", raised |-> r.raised])
       /\ UNCHANGED <<engine_vars, driver_vars, service_vars, send_vars, run_vars>>

NextHackRF ==
    \/ \E fault \in SetupFaults : StartScanning(fault)
    \/ \E close_raises \in BOOLEAN : StopScanning(close_raises)

----------------------------------------------------------------------------
(* AlertManager.send_alert (src/alerts.py) statement by statement: the     *)
(* throttle check, the message, and the delivery loop                      *)

MaxSends == 2

(* retry_count as the constructor takes it; 3 is its default *)
RetryCounts == {0, 1, 3}

(* fault variant: the timestamp is refreshed by throttled calls too *)
_should_throttle_update_always(anomaly_type, current_time, last) ==
    Stamp(last, anomaly_type, current_time)

(* last_alert_time after _should_throttle(anomaly_type) *)
_should_throttle_update(anomaly_type, current_time, last) ==
    IF _should_throttle(anomaly_type, current_time, last) THEN last
    ELSE Stamp(last, anomaly_type, current_time)

(* fault variant: the delay follows every failed attempt *)
post_sleeps_always(attempt, retry_count) == TRUE

(* if attempt < self.retry_count - 1: time.sleep(self.retry_delay) *)
post_sleeps(attempt, retry_count) == attempt < retry_count - 1

(* the requests.post calls among the events of a call *)
Posts(events) == Cardinality({i \in DOMAIN events : events[i] # "sleep"})

(* AlertManager(webhook_url, retry_count) *)
AlertManagerInit(retry_count) ==
    /\ send = NoManager
    /\ send' = [at |-> "out", retry_count |-> retry_count, type |-> "none",
                time0 |-> 0, last0 |-> <<>>, throttled |-> FALSE, events |-> <<>>,
                value |-> FALSE, calls |-> 0]
    /\ last_alert_time' = <<>>
    /\ UNCHANGED <<engine_vars, driver_vars, threads, _lock, alerts, hackrf_vars, run_vars>>

(* send_alert(anomaly) up to the first requests.post: a throttled call     *)
(* returns False; _create_alert_message raises KeyError on an anomaly      *)
(* without "details"; range(retry_count) may be empty                      *)
SendAlertCall(anomaly_type, has_details) ==
    /\ send # NoManager
    /\ send.at \in {"out", "returned", "raised"}
    /\ send.calls < MaxSends
    /\ LET throttled == _should_throttle(anomaly_type, now, last_alert_time)
       IN /\ last_alert_time' = _should_throttle_update(anomaly_type, now, last_alert_time)
          /\ send' = [send EXCEPT
                        !.at = IF throttled THEN "returned"
                               ELSE IF ~has_details THEN "raised"
                               ELSE IF send.retry_count <= 0 THEN "returned"
                               ELSE "post",
                        !.type = anomaly_type,
                        !.time0 = now,
                        !.last0 = last_alert_time,
                        !.throttled = throttled,
                        !.events = <<>>,
                        !.value = FALSE,
                        !.calls = @ + 1]
    /\ UNCHANGED <<engine_vars, driver_vars, threads, _lock, alerts, hackrf_vars, run_vars>>

(* one pass of the loop body: requests.post and raise_for_status; success  *)
(* returns True, a RequestException is logged and, after the last attempt, *)
(* the loop ends and send_alert returns False                              *)
Post(ok) ==
    /\ send # NoManager
    /\ send.at = "post"
    /\ LET attempt == Posts(send.events)
       IN send' = [send EXCEPT
                     !.events = Append(@, IF ok THEN "post_ok" ELSE "post_failed"),
                     !.value = ok,
                     !.at = IF ok THEN "returned"
                            ELSE IF post_sleeps(attempt, send.retry_count) THEN "sleep"
                            ELSE IF attempt + 1 < send.retry_count THEN "post"
                            ELSE "returned"]
    /\ UNCHANGED <<engine_vars, driver_vars, service_vars, hackrf_vars, run_vars>>

(* time.sleep(self.retry_delay), then the next pass of the loop if any *)
RetrySleep ==
    /\ send # NoManager
    /\ send.at = "sleep"
    /\ send' = [send EXCEPT
                  !.events = Append(@, "sleep"),
                  !.at = IF Posts(send.events) < send.retry_count THEN "post"
                         ELSE "returned"]
    /\ UNCHANGED <<engine_vars, driver_vars, service_vars, hackrf_vars, run_vars>>

NextSend ==
    \/ \E retry_count \in RetryCounts : AlertManagerInit(retry_count)
    \/ \E type \in AlertTypes, has_details \in BOOLEAN : SendAlertCall(type, has_details)
    \/ \E ok \in BOOLEAN : Post(ok)
    \/ RetrySleep
    \/ AlertTick

----------------------------------------------------------------------------
(* RFGhost.run (src/main.py): the scan loop and the shutdown handler.  The *)
(* handler runs in the main thread between any two statements of the loop. *)
(* No statement of the try body raises: _scan_frequency and                *)
(* _process_anomalies catch what their callees raise.                      *)

MaxRunScans == 3

MainThread == 1

(* get_rf_logger() in RFGhost.__init__ *)
RunLoggerConstruct ==
    /\ run.at = "init"
    /\ LoggerConstruct(MainThread)

(* a logger call returned to the main thread: __init__ goes on and run()   *)
(* starts, or _process_anomalies goes on to the alert and the loop to its  *)
(* time.sleep                                                              *)
LoggerReturn ==
    /\ run.at \in {"init", "log"}
    /\ threads[MainThread].op = "returned"
    /\ threads' = [threads EXCEPT ![MainThread] = [op |-> "none", arg |-> 0, at |-> "out"]]
    /\ run' = [run EXCEPT !.at = IF run.at = "init" THEN "while" ELSE "sleep"]
    /\ UNCHANGED <<engine_vars, driver_vars, _lock, last_alert_time, alerts,
                   hackrf_vars, send_vars, running>>

(* _handle_shutdown, installed for SIGINT and SIGTERM by __init__ *)
_handle_shutdown ==
    /\ run.at # "init"
    /\ running
    /\ running' = FALSE
    /\ UNCHANGED <<engine_vars, driver_vars, service_vars, hackrf_vars, send_vars, run>>

(* while self.running: *)
WhileTest ==
    /\ run.at = "while"
    /\ run' = [run EXCEPT !.at = IF running THEN "for" ELSE "returned",
                          !.i = 1,
                          !.seen_false = @ \/ ~running]
    /\ UNCHANGED <<engine_vars, driver_vars, service_vars, hackrf_vars, send_vars, running>>

(* for freq in self.frequencies: *)
ForNext ==
    /\ run.at = "for"
    /\ run' = [run EXCEPT !.at = IF run.i > Len(Frequencies) THEN "while" ELSE "if"]
    /\ UNCHANGED <<engine_vars, driver_vars, service_vars, hackrf_vars, send_vars, running>>

(* if not self.running: break *)
IfNotRunning ==
    /\ run.at = "if"
    /\ running => run.scans < MaxRunScans
    /\ run' = [run EXCEPT !.at = IF running THEN "call_scan" ELSE "while",
                          !.seen_false = @ \/ ~running]
    /\ UNCHANGED <<engine_vars, driver_vars, service_vars, hackrf_vars, send_vars, running>>

(* the call of self._scan_frequency(freq) *)
StartScan ==
    /\ run.at = "call_scan"
    /\ run' = [run EXCEPT !.at = "scan", !.scans = @ + 1]
    /\ UNCHANGED <<engine_vars, driver_vars, service_vars, hackrf_vars, send_vars, running>>

(* _scan_frequency returns; if signal_data is None: continue *)
ScanReturn(is_none) ==
    /\ run.at = "scan"
    /\ run' = IF is_none THEN [run EXCEPT !.at = "for", !.i = @ + 1]
              ELSE [run EXCEPT !.at = "detect"]
    /\ UNCHANGED <<engine_vars, driver_vars, service_vars, hackrf_vars, send_vars, running>>

(* anomalies = detect_anomalies(signal_data); if anomalies: *)
Detect(found) ==
    /\ run.at = "detect"
    /\ run' = [run EXCEPT !.at = IF found THEN "process" ELSE "sleep"]
    /\ UNCHANGED <<engine_vars, driver_vars, service_vars, hackrf_vars, send_vars, running>>

(* _process_anomalies: self.logger.log_anomaly(anomaly) *)
ProcessLogAnomaly(type) ==
    /\ run.at = "process"
    /\ _lock # NoLock
    /\ threads' = [threads EXCEPT ![MainThread] =
                      [op |-> "log_anomaly", arg |-> type, at |-> "lock"]]
    /\ run' = [run EXCEPT !.at = "log"]
    /\ UNCHANGED <<engine_vars, driver_vars, _lock, last_alert_time, alerts,
                   hackrf_vars, send_vars, running>>

(* time.sleep(self.scan_interval), then the next frequency *)
RunSleep ==
    /\ run.at = "sleep"
    /\ run' = [run EXCEPT !.at = "for", !.i = @ + 1]
    /\ UNCHANGED <<engine_vars, driver_vars, service_vars, hackrf_vars, send_vars, running>>

(* the steps of the main thread *)
RunThread ==
    \/ RunLoggerConstruct
    \/ LoggerThread(MainThread)
    \/ LoggerReturn
    \/ WhileTest
    \/ ForNext
    \/ IfNotRunning
    \/ StartScan
    \/ \E is_none \in BOOLEAN : ScanReturn(is_none)
    \/ \E found \in BOOLEAN : Detect(found)
    \/ \E type \in AnomalyType : ProcessLogAnomaly(type)
    \/ RunSleep

NextRun ==
    \/ RunLoggerConstruct
    \/ AcquireLock(MainThread)
    \/ AcquireRotateLock(MainThread)
    \/ Rotate(MainThread)
    \/ LoggerReturn
    \/ _handle_shutdown
    \/ WhileTest
    \/ ForNext
    \/ IfNotRunning
    \/ StartScan
    \/ \E is_none \in BOOLEAN : ScanReturn(is_none)
    \/ \E found \in BOOLEAN : Detect(found)
    \/ \E type \in AnomalyType : ProcessLogAnomaly(type)
    \/ RunSleep

----------------------------------------------------------------------------
(* Specifications *)

InitEngine ==
    /\ history = <<>>
    /\ returned = <<>>
    /\ outcome = "none"
    /\ errors = 0
    /\ inserted = <<>>

(* HackRFInterface.__init__; no AlertManager yet; RFGhost.__init__ has set *)
(* running and is about to create the logger                               *)
InitApp ==
    /\ _running = FALSE
    /\ _device = "None"
    /\ scanning = <<>>
    /\ send = NoManager
    /\ running = TRUE
    /\ run = [at |-> "init", i |-> 0, scans |-> 0, seen_false |-> FALSE]

(* before CC1101Interface is constructed *)
InitDriver ==
    /\ pc = "uninit"
    /\ bus = <<>>
    /\ _power_mode = "none"
    /\ _last_calibration = 0
    /\ now = StartTime
    /\ call = [op |-> "none"]
    /\ result = [tag |-> "none"]

(* no thread is inside a call; the logger and the alert manager are as    *)
(* their constructors leave them                                           *)
InitService ==
    /\ threads = <<>>
    /\ _lock = Free
    /\ last_alert_time = <<>>
    /\ alerts = <<>>

Init == InitEngine /\ InitDriver /\ InitService /\ InitApp

Next ==
    \E signal \in Signals(Len(inserted) + 1) :
        /\ Len(inserted) < MaxCalls
        /\ detect_anomalies(signal)

Spec == Init /\ [][Next]_vars

(* the driver on its own *)
SpecDriver == Init /\ [][NextDriver]_vars

(* the program keeps running: whenever a step is possible, one is taken *)
SpecDriverFair == SpecDriver /\ WF_vars(NextDriver)

(* a constructed driver about to compute: the call and its input are drawn *)
(* here, the step applies the function                                     *)
InitCodec ==
    /\ InitEngine
    /\ InitApp
    /\ InitService
    /\ pc = "ready"
    /\ bus = <<>>
    /\ _power_mode = "active"
    /\ _last_calibration = StartTime
    /\ now = StartTime
    /\ call \in CodecCalls
    /\ result = [tag |-> "pending"]

SpecCodec == InitCodec /\ [][NextCodec]_vars

(* a constructed driver, just calibrated, shared by threads that have not  *)
(* called it yet                                                           *)
InitThreads ==
    /\ InitEngine
    /\ InitApp
    /\ pc = "ready"
    /\ bus = <<>>
    /\ _power_mode = "active"
    /\ _last_calibration = StartTime
    /\ now = StartTime
    /\ call = [op |-> "none"]
    /\ result = [tag |-> "none"]
    /\ threads = [t \in ThreadIds |-> [op |-> "none", arg |-> 0, at |-> 0]]
    /\ _lock = Free
    /\ last_alert_time = <<>>
    /\ alerts = <<>>

SpecThreads == InitThreads /\ [][NextThreads]_vars

(* threads that share the logger singleton, before it is created *)
InitLogger ==
    /\ InitEngine
    /\ InitApp
    /\ InitDriver
    /\ threads = [t \in ThreadIds |-> [op |-> "none", arg |-> 0, at |-> "out"]]
    /\ _lock = NoLock
    /\ last_alert_time = <<>>
    /\ alerts = <<>>

SpecLogger == InitLogger /\ [][NextLogger]_vars

(* every thread keeps being scheduled: a thread that can take a step of    *)
(* its call takes it                                                       *)
SpecLoggerFair == SpecLogger /\ \A t \in ThreadIds : WF_vars(LoggerThread(t))

(* the alert manager on its own *)
SpecAlerts == Init /\ [][NextAlerts]_vars

(* the scan loop with the driver and the engine *)
SpecLoop == Init /\ [][NextLoop]_vars

(* a long run of the scan loop on one engine *)
NextHistory ==
    /\ Len(inserted) < MaxInsert
    /\ detect_anomalies(LoopSignal(Len(inserted) + 1))

SpecHistory == Init /\ [][NextHistory]_vars

(* an engine that has run through 99 scans of the loop and is then fed    *)
(* hand-built dicts: the history fills up and the oldest record is evicted *)
NextFrame ==
    \/ /\ Len(inserted) < history_size - 1
       /\ detect_anomalies(LoopSignal(Len(inserted) + 1))
    \/ /\ Len(inserted) >= history_size - 1
       /\ Len(inserted) < history_size - 1 + MaxCalls
       /\ \E signal \in CallerSignals(Len(inserted) + 1) : detect_anomalies(signal)

SpecFrame == Init /\ [][NextFrame]_vars

(* the HackRF interface on its own *)
SpecHackRF == Init /\ [][NextHackRF]_vars

(* send_alert with its delivery attempts *)
SpecSend == Init /\ [][NextSend]_vars

(* RFGhost from its constructor on: the main thread, and signals *)
SpecRun == InitLogger /\ [][NextRun]_vars

(* the main thread keeps running: a call in progress returns when it can,  *)
(* a sleep ends; signals come when they come                               *)
SpecRunFair == SpecRun /\ WF_vars(RunThread)

TypeOK ==
    /\ Len(history) <= history_size
    /\ outcome \in {"none", "returned", "raised"}

----------------------------------------------------------------------------
(* Reading the state after a detect_anomalies call *)

Called == outcome # "none"
cur == inserted[Len(inserted)]
Fired(type) == \E i \in DOMAIN returned : returned[i].type = type
Count(type) == Cardinality({i \in DOMAIN returned : returned[i].type = type})
AnomalyOf(type) == returned[CHOOSE i \in DOMAIN returned : returned[i].type = type]
WellFormed(signal) == {"rssi", "entropy", "frequency"} \subseteq DOMAIN signal

(* c = clamp(p / q, 0, 1), for q > 0 *)
IsClamped(c, p, q) ==
    IF p < 0 THEN c.num = 0
    ELSE IF p > q THEN c.num = c.den
    ELSE c.num * q = p * c.den

(* c = p / q, for q > 0 *)
IsRatio(c, p, q) == c.num * q = p * c.den

----------------------------------------------------------------------------
(* C1: the history never holds more than 100 records and always equals the *)
(* most recent min(n, 100) inserted records in insertion order; after 150  *)
(* insertions its length is 100 and its first entry is the 51st inserted.  *)
C1_HistoryIsLast100 ==
    LET n == Len(inserted)
        k == Min(n, 100)
    IN /\ Len(history) <= 100
       /\ history = SubSeq(inserted, n - k + 1, n)
       /\ n = 150 => Len(history) = 100 /\ history[1] = inserted[51]

C1_Witness ==
    /\ Len(inserted) = 150
    /\ Len(history) = 100
    /\ history[1].timestamp = 51
    /\ history[100].timestamp = 150

(* C2: if one detector raises, detect_anomalies still returns normally and *)
(* every other detector whose firing condition holds still contributes its *)
(* anomaly to the returned list.                                           *)
C2_DetectorIsolation ==
    (Called /\ \E t \in AnomalyType : detector(t, cur, history) = Raised)
        => /\ outcome = "returned"
           /\ \A t \in AnomalyType :
                 detector(t, cur, history).tag = "anomaly"
                     => \E i \in DOMAIN returned : returned[i] = detector(t, cur, history)

C2_Witness ==
    /\ outcome = "returned"
    /\ errors > 0
    /\ detector(GHOST_ECHO, cur, history) = Raised
    /\ Fired(PATTERN)

(* C3: FrequencyShift fires exactly when the history has at least 2        *)
(* entries and the current record's frequency differs from the previous    *)
(* record's by more than 1.0 MHz, with confidence min(1, freq_diff/10.0);  *)
(* 433.92 MHz then 435.50 MHz gives a FrequencyShift of confidence 0.158.  *)
C3_FrequencyShiftClaim ==
    (Len(inserted) >= 2 /\ Has(cur, "frequency")
                        /\ Has(inserted[Len(inserted) - 1], "frequency"))
        => LET freq_diff == Abs(cur["frequency"] - inserted[Len(inserted) - 1]["frequency"])
           IN /\ Fired(FREQ_SHIFT) <=> freq_diff > 100
              /\ Fired(FREQ_SHIFT) => IsClamped(AnomalyOf(FREQ_SHIFT).confidence, freq_diff, 1000)
              /\ (cur["frequency"] = 43550 /\ inserted[Len(inserted) - 1]["frequency"] = 43392)
                    => /\ Fired(FREQ_SHIFT)
                       /\ IsRatio(AnomalyOf(FREQ_SHIFT).confidence, 158, 1000)

(* C4: the record a history-dependent detector treats as "previous" is the *)
(* record inserted by the immediately preceding call (index len-2 after    *)
(* the append), never the just-appended current record.                    *)
C4_PreviousIsPrecedingRecord ==
    Len(history) >= 2
        => /\ prev_signal(history) = inserted[Len(inserted) - 1]
           /\ prev_signal(history) # cur

(* C5: GhostEcho fires exactly when rssi > rssi_high and entropy >         *)
(* entropy_threshold, whatever the history, with confidence                *)
(* clamp((rssi + 120) / 90, 0, 1); with the default thresholds the record  *)
(* {rssi: -40, entropy: 0.9, frequency: 433.92} yields exactly one         *)
(* GhostEcho anomaly.                                                      *)
C5_GhostEcho ==
    (Called /\ WellFormed(cur))
        => /\ Fired(GHOST_ECHO) <=> (cur["rssi"] > rssi_high /\ cur["entropy"] > entropy_threshold)
           /\ Count(GHOST_ECHO) <= 1
           /\ Fired(GHOST_ECHO)
                 => IsClamped(AnomalyOf(GHOST_ECHO).confidence, cur["rssi"] + 120, 90)
           /\ (cur["rssi"] = -40 /\ cur["entropy"] = 90 /\ cur["frequency"] = 43392)
                 => /\ Count(GHOST_ECHO) = 1
                    /\ IsRatio(AnomalyOf(GHOST_ECHO).confidence, 80, 90)
                    /\ DOMAIN cur = {"rssi", "entropy", "frequency", "timestamp"}
                          => Len(returned) = 1

C5_Witness ==
    /\ Len(history) = 2
    /\ DOMAIN cur = {"rssi", "entropy", "frequency", "timestamp"}
    /\ cur["rssi"] = -40 /\ cur["entropy"] = 90 /\ cur["frequency"] = 43392
    /\ Len(returned) = 1
    /\ returned[1].type = GHOST_ECHO

(* C6: VoidPulse fires exactly when rssi < rssi_low and entropy >          *)
(* entropy_threshold, whatever the history, with confidence                *)
(* 1 - clamp((rssi + 120) / 90, 0, 1).                                     *)
C6_VoidPulse ==
    (Called /\ WellFormed(cur))
        => /\ Fired(VOID_PULSE) <=> (cur["rssi"] < rssi_low /\ cur["entropy"] > entropy_threshold)
           /\ Count(VOID_PULSE) <= 1
           /\ Fired(VOID_PULSE)
                 => LET c == AnomalyOf(VOID_PULSE).confidence
                    IN IsClamped([num |-> c.den - c.num, den |-> c.den], cur["rssi"] + 120, 90)

C6_Witness ==
    /\ Len(history) = 2
    /\ WellFormed(cur)
    /\ cur["rssi"] = -100
    /\ Fired(VOID_PULSE)
    /\ IsRatio(AnomalyOf(VOID_PULSE).confidence, 70, 90)

(* C7: StaticBurst fires exactly when duration > duration_threshold and    *)
(* entropy > entropy_threshold, with confidence min(1, duration / 5.0); it *)
(* depends only on the current record, not on the history.                 *)
C7_StaticBurstClaim ==
    (Called /\ WellFormed(cur) /\ Has(cur, "duration"))
        => /\ Fired(STATIC_BURST)
                 <=> (cur["duration"] > duration_threshold /\ cur["entropy"] > entropy_threshold)
           /\ Fired(STATIC_BURST)
                 => IsClamped(AnomalyOf(STATIC_BURST).confidence, cur["duration"], 500)

C9_FirstCallClaim ==
    (Len(inserted) = 1 /\ WellFormed(cur) /\ Has(cur, "duration"))
        => /\ outcome = "returned"
           /\ ~Fired(FREQ_SHIFT)
           /\ (cur["rssi"] > rssi_high /\ cur["entropy"] > entropy_threshold)
                 => Fired(GHOST_ECHO)
           /\ (cur["rssi"] < rssi_low /\ cur["entropy"] > entropy_threshold)
                 => Fired(VOID_PULSE)
           /\ (cur["duration"] > duration_threshold /\ cur["entropy"] > entropy_threshold)
                 => Fired(STATIC_BURST)

(* C10: every anomaly returned by detect_anomalies carries a confidence in *)
(* the closed range [0, 1].                                                *)
C10_ConfidenceInUnitRange ==
    \A i \in DOMAIN returned :
        /\ 0 <= returned[i].confidence.num
        /\ returned[i].confidence.num <= returned[i].confidence.den

(* C11: each detect_anomalies call changes the history by exactly one      *)
(* append of the current record, plus at most one eviction of the oldest   *)
(* record; no detector, whether it fires, does not fire or raises, adds,   *)
(* removes or reorders history entries.                                    *)
C11_OneAppendPerCall ==
    [][IF inserted' = inserted THEN history' = history
       ELSE LET signal == inserted'[Len(inserted')]
            IN /\ inserted' = Append(inserted, signal)
               /\ \/ history' = Append(history, signal)
                  \/ history' = Tail(Append(history, signal))]_vars

C11_Witness ==
    /\ Len(inserted) = history_size + 1
    /\ Len(history) = history_size
    /\ history[1] = inserted[2]
    /\ errors > 0
    /\ Fired(PATTERN)
    /\ ~Fired(GHOST_ECHO)

----------------------------------------------------------------------------
(* Reading the bus log of the current driver operation *)

IsStrobe(x, command) == x.bytes = <<command>>
IsRead(x, address) == x.bytes = <<address + 128, 0>>
IsWrite(x, address) == Len(x.bytes) = 2 /\ x.bytes[1] = address
IsFreqWrite(x) == \E a \in {CC1101_FREQ2, CC1101_FREQ1, CC1101_FREQ0} : IsWrite(x, a)
IsConfigWrite(x) == Len(x.bytes) = 2 /\ x.bytes[1] < 128 /\ ~IsFreqWrite(x)
Calibrating == pc \in {"init_cal_poll", "init_cal_sleep", "scan_cal_poll", "scan_cal_sleep"}
ScanReturned == call.op = "scan_frequency" /\ pc = "ready"
ClaimedBand(freq) ==
    \/ (30000 <= freq /\ freq <= 34800)
    \/ (38700 <= freq /\ freq <= 46400)
    \/ (77900 <= freq /\ freq <= 92800)

(* C12: during construction the bus operations occur in the order reset,   *)
(* identity read, configuration writes, calibrate; no configuration        *)
(* register is written and no calibrate command is issued unless the       *)
(* identity read returned 0x14; on a mismatch construction fails and no    *)
(* driver instance exists to operate on.                                   *)
C12_InitOrder ==
    /\ call.op = "__init__" =>
          /\ Len(bus) >= 1 => IsStrobe(bus[1], CC1101_SRES)
          /\ \A i \in DOMAIN bus :
                /\ IsRead(bus[i], CC1101_VERSION) => i = 2
                /\ (IsConfigWrite(bus[i]) \/ IsStrobe(bus[i], CC1101_SCAL))
                      => /\ i > 2
                         /\ IsRead(bus[2], CC1101_VERSION) /\ bus[2].ok /\ bus[2].resp = 20
                /\ IsStrobe(bus[i], CC1101_SCAL)
                      => \A j \in DOMAIN bus : IsConfigWrite(bus[j]) => j < i
          /\ (Len(bus) >= 2 /\ bus[2].ok /\ bus[2].resp # 20)
                => pc = "failed" /\ result.tag = "RuntimeError"
    /\ pc = "failed" => call.op = "__init__" /\ result.tag = "RuntimeError"

C12_Witness ==
    /\ pc = "failed"
    /\ Len(bus) = 2
    /\ IsStrobe(bus[1], CC1101_SRES) /\ bus[1].ok
    /\ IsRead(bus[2], CC1101_VERSION) /\ bus[2].ok /\ bus[2].resp = 0

(* C13: construction succeeds only if reset, identity verification,        *)
(* configuration and calibration have all completed without error, so a    *)
(* constructed driver is in Idle with a successful calibration recorded; a *)
(* bus error in any of these steps, calibration included, makes            *)
(* construction fail.                                                      *)
C13_ConstructedMeansAllStepsOk ==
    (call.op = "__init__" /\ pc = "ready")
        => /\ \A i \in DOMAIN bus : bus[i].ok
           /\ \E i \in DOMAIN bus :
                 IsRead(bus[i], CC1101_MARCSTATE) /\ bus[i].ok /\ bus[i].resp = 1
           /\ _last_calibration = call.time0
           /\ _power_mode = "idle"

(* C14: every calibration attempt terminates: if the status register never *)
(* reports idle, the wait stops polling and fails, so construction and     *)
(* scan_frequency always eventually return.                                *)
C14_CalibrationTerminates == Calibrating ~> ~Calibrating

(* C15: a set_power_mode call whose requested mode equals the current mode *)
(* issues no bus command and leaves the driver state unchanged; after a    *)
(* call that returned, the current mode is the requested one, so a second  *)
(* call in a row issues nothing more.                                      *)
C15_SamePowerModeIsNoOp ==
    [][(call'.op = "set_power_mode" /\ now' = now)
          => /\ call'.arg = _power_mode
                  => /\ bus' = <<>>
                     /\ _power_mode' = _power_mode
                     /\ _last_calibration' = _last_calibration
                     /\ pc' = pc
                     /\ result'.tag = "returned"
             /\ result'.tag = "returned" => _power_mode' = call'.arg]_vars

C15_Witness ==
    /\ call.op = "set_power_mode"
    /\ call.arg = "idle"
    /\ call.mode0 = "idle"
    /\ _power_mode = "idle"
    /\ bus = <<>>

(* C16: in every scan_frequency call that reads samples, the first scan    *)
(* after construction included, an RX-enable command is issued after the   *)
(* frequency registers are written and before the first RSSI read.         *)
C16_RxEnabledBeforeSampling ==
    (call.op = "scan_frequency" /\ \E i \in DOMAIN bus : IsRead(bus[i], CC1101_RSSI))
        => \E j \in DOMAIN bus :
              /\ IsStrobe(bus[j], CC1101_SRX) /\ bus[j].ok
              /\ \A i \in DOMAIN bus :
                    /\ IsFreqWrite(bus[i]) => i < j
                    /\ IsRead(bus[i], CC1101_RSSI) => j < i

(* C17: scan_frequency issues a calibrate command, and waits for the       *)
(* status register to report idle, before writing the frequency registers  *)
(* if and only if more than 300 s have elapsed since the last successful   *)
(* calibration; otherwise the scan issues no calibrate command.            *)
C17_RecalibrationPolicy ==
    ScanReturned
        => /\ (\E i \in DOMAIN bus : IsStrobe(bus[i], CC1101_SCAL)) <=> call.elapsed0 > 300
           /\ call.elapsed0 > 300
                 => \A w \in DOMAIN bus :
                       IsFreqWrite(bus[w])
                          => \E i, j \in DOMAIN bus :
                                /\ i < j /\ j < w
                                /\ IsStrobe(bus[i], CC1101_SCAL) /\ bus[i].ok
                                /\ IsRead(bus[j], CC1101_MARCSTATE)
                                /\ bus[j].ok /\ bus[j].resp = 1

(* C18: set_frequency with a frequency outside 300-348, 387-464 and        *)
(* 779-928 MHz returns failure without raising and writes none of the      *)
(* three frequency registers.                                              *)
C18_OutOfBandSetFrequency ==
    (call.op = "set_frequency" /\ ~ClaimedBand(call.arg))
        => /\ result = [tag |-> "returned", value |-> FALSE]
           /\ \A i \in DOMAIN bus : ~IsFreqWrite(bus[i])
           /\ pc = "ready"

C18_Witness ==
    /\ call.op = "set_frequency"
    /\ call.arg = 35000
    /\ result = [tag |-> "returned", value |-> FALSE]
    /\ bus = <<>>

(* C19: when set_frequency fails inside scan_frequency, the scan returns a *)
(* failure at once: no RX-enable command is issued, no RSSI or LQI         *)
(* register is read, and the power mode is unchanged.                      *)
TuningFailed ==
    \/ ~ClaimedBand(call.arg)
    \/ \E i \in DOMAIN bus : IsFreqWrite(bus[i]) /\ ~bus[i].ok

C19_TuningFailureEndsScan ==
    (ScanReturned /\ TuningFailed)
        => /\ result.tag = "None"
           /\ \A i \in DOMAIN bus :
                 /\ ~IsStrobe(bus[i], CC1101_SRX)
                 /\ ~IsRead(bus[i], CC1101_RSSI)
                 /\ ~IsRead(bus[i], CC1101_LQI)
           /\ _power_mode = call.mode0

C19_Witness ==
    /\ ScanReturned
    /\ call.mode0 = "idle"
    /\ ClaimedBand(call.arg)
    /\ Len(bus) = 2
    /\ IsFreqWrite(bus[2]) /\ ~bus[2].ok
    /\ result.tag = "None"
    /\ _power_mode = "idle"

(* a scan that reached the sample loop and took no sample *)
ZeroSamples ==
    /\ ScanReturned
    /\ ClaimedBand(call.arg)
    /\ Cardinality({i \in DOMAIN bus : IsFreqWrite(bus[i]) /\ bus[i].ok}) = 3
    /\ \A i \in DOMAIN bus :
          /\ IsStrobe(bus[i], CC1101_SRX) => bus[i].ok
          /\ ~IsRead(bus[i], CC1101_RSSI)

C21_MetricsLeaveIdle ==
    (ScanReturned /\ result.tag = "metrics")
        => /\ _power_mode = "idle"
           /\ Len(bus) > 0
           /\ IsStrobe(bus[Len(bus)], CC1101_SIDLE) /\ bus[Len(bus)].ok
           /\ \A i \in DOMAIN bus :
                 (IsRead(bus[i], CC1101_RSSI) \/ IsRead(bus[i], CC1101_LQI)
                    \/ IsStrobe(bus[i], CC1101_SRX) \/ IsStrobe(bus[i], CC1101_SPWD))
                 => i < Len(bus) /\ bus[i].ok
           /\ \E i \in DOMAIN bus : IsRead(bus[i], CC1101_LQI)

C21_Witness ==
    /\ ScanReturned
    /\ result = [tag |-> "metrics", frequency |-> 43392, samples |-> 2]
    /\ call.mode0 = "sleep"
    /\ _power_mode = "idle"
    /\ IsStrobe(bus[Len(bus)], CC1101_SIDLE)

(* C22: for every raw byte the RSSI decode returns raw/2 - 74 below 128    *)
(* and (raw - 256)/2 - 74 from 128 on, exactly, halves included (255 gives *)
(* -74.5); stated on twice the value.                                      *)
C22_RssiDecodeExact ==
    (call.op = "get_rssi" /\ result.tag = "returned")
        => 2 * result.value
              = (IF call.arg < 128 THEN call.arg ELSE call.arg - 256) - 148

(* C23: for every in-band frequency the three register bytes are the       *)
(* most-significant-first split of round(freq_hz / 26 MHz * 65536).        *)
C23_FreqRegistersRounded ==
    (call.op = "_calculate_freq_registers" /\ result.tag = "returned"
        /\ ClaimedBand(call.arg))
        => result.value[1] * 65536 + result.value[2] * 256 + result.value[3]
              = Round(call.arg * 8192, 325)

(* C25: the signal_quality of a record returned by scan_frequency lies in  *)
(* [0, 1], whatever RSSI the decode produced and whatever the LQI.         *)
C25_SignalQualityInUnitRange ==
    (call.op = "metrics" /\ result.tag = "metrics")
        => 0 <= result.signal_quality /\ result.signal_quality <= 100

(* C26: the entropy of a record returned by scan_frequency is the Shannon  *)
(* entropy of the samples divided by 8.0 and clamped, so it lies in [0, 1].*)
C26_EntropyNormalised ==
    (call.op = "metrics" /\ result.tag = "metrics")
        => LET samples == [i \in DOMAIN call.arg.raw |-> get_rssi(call.arg.raw[i])]
               shannon == calculate_entropy(samples)
           IN /\ 0 <= result.entropy /\ result.entropy <= 100
              /\ result.entropy = Round(shannon.num, shannon.den * 80000)

ConfigRegisters ==
    {CC1101_MDMCFG2, CC1101_MDMCFG4, CC1101_MDMCFG3, CC1101_DEVIATN,
     CC1101_AGCCTRL2, CC1101_AGCCTRL1, CC1101_AGCCTRL0, CC1101_FREND1, CC1101_FREND0,
     CC1101_FSCAL3, CC1101_FSCAL2, CC1101_FSCAL1, CC1101_FSCAL0,
     CC1101_MCSM0, CC1101_MCSM1, CC1101_MCSM2}
RateOut == call.arg.data_rate < 6 \/ call.arg.data_rate > 5000
DeviationOut == call.arg.deviation < 1587 \/ call.arg.deviation > 380000

(* C24: during configuration a data rate outside 0.6-500 kbps is replaced  *)
(* by 1.2 kbps (register bytes 242 and 240) and a deviation outside        *)
(* 1.587-380 kHz by 45 kHz (register byte 66); the pass continues: every   *)
(* configuration register is still written, and construction fails only   *)
(* on an identity mismatch or a bus error.                                 *)
C24_OutOfRangeSettingsClamped ==
    call.op = "__init__"
        => /\ \A i \in DOMAIN bus :
                 /\ (RateOut /\ IsWrite(bus[i], CC1101_MDMCFG4)) => bus[i].bytes[2] = 242
                 /\ (RateOut /\ IsWrite(bus[i], CC1101_MDMCFG3)) => bus[i].bytes[2] = 240
                 /\ (DeviationOut /\ IsWrite(bus[i], CC1101_DEVIATN)) => bus[i].bytes[2] = 66
           /\ ((RateOut \/ DeviationOut) /\ pc = "failed")
                 => \/ ~bus[Len(bus)].ok
                    \/ (Len(bus) = 2 /\ bus[2].resp # 20)
           /\ ((RateOut \/ DeviationOut) /\ pc # "failed")
                 => \A a \in ConfigRegisters :
                       \E i \in DOMAIN bus : IsWrite(bus[i], a) /\ bus[i].ok

C24_Witness ==
    /\ call.op = "__init__"
    /\ pc = "ready"
    /\ call.arg = [data_rate |-> 5010, deviation |-> 1586]
    /\ \E i \in DOMAIN bus : bus[i] = Xfer(WriteReq(CC1101_MDMCFG4, 242), TRUE, 0)
    /\ \E i \in DOMAIN bus : bus[i] = Xfer(WriteReq(CC1101_DEVIATN, 66), TRUE, 0)
    /\ \E i \in DOMAIN bus : bus[i] = Xfer(WriteReq(CC1101_MCSM2, 7), TRUE, 0)

(* C28: when a scan of a frequency fails, the failure reaches the scan     *)
(* loop as a failure: the loop passes no record of that scan to            *)
(* detect_anomalies, and the detection history is unchanged by it.         *)
C28_FailedScanSkipsDetection ==
    [][(pc = "ready" /\ call.op = "scan_frequency" /\ result.tag = "None")
          => (history' = history /\ inserted' = inserted)]_vars

(* C27: when two threads call public operations on the same driver, their  *)
(* bus transfers never interleave: one caller's transfers happen entirely  *)
(* before or entirely after the other's.                                   *)
C27_TransfersDoNotInterleave ==
    \A i, j, l \in DOMAIN bus :
        (i < j /\ j < l /\ bus[i].by = bus[l].by) => bus[j].by = bus[i].by

(* C29: every call to log_signal or log_anomaly eventually returns: taking *)
(* the logger's lock and doing the rotation check inside the call never    *)
(* blocks forever, for one calling thread as for several.                  *)
C29_LogCallsReturn ==
    \A t \in ThreadIds :
        (threads[t].op \in {"log_signal", "log_anomaly"}) ~> (threads[t].op = "returned")

(* C30: for each anomaly type, any two send_alert calls of that type that  *)
(* are not throttled are at least 60 seconds apart, and a call is          *)
(* throttled only because of an earlier alert of its own type, less than   *)
(* 60 seconds before it.                                                   *)
C30_ThrottlePerType ==
    /\ \A i, j \in DOMAIN alerts :
          (i < j /\ alerts[i].type = alerts[j].type
              /\ ~alerts[i].throttled /\ ~alerts[j].throttled)
          => alerts[j].time - alerts[i].time >= 60
    /\ \A j \in DOMAIN alerts :
          alerts[j].throttled
          => \E i \in 1..(j - 1) :
                /\ alerts[i].type = alerts[j].type
                /\ ~alerts[i].throttled
                /\ alerts[j].time - alerts[i].time < 60

C30_Witness ==
    /\ Len(alerts) = 4
    /\ alerts[1] = [type |-> GHOST_ECHO, time |-> StartTime, throttled |-> FALSE]
    /\ alerts[2] = [type |-> VOID_PULSE, time |-> StartTime + 59, throttled |-> FALSE]
    /\ alerts[3] = [type |-> GHOST_ECHO, time |-> StartTime + 59, throttled |-> TRUE]
    /\ alerts[4] = [type |-> GHOST_ECHO, time |-> StartTime + 60, throttled |-> FALSE]

----------------------------------------------------------------------------
(* Reading the state after a start_scanning / stop_scanning call *)

LastScanning == scanning[Len(scanning)]

(* C31: the running flag is true after a start_scanning call that returned *)
(* normally and stays true until the next stop_scanning; stop_scanning     *)
(* always leaves it false; a start_scanning that raises leaves it false;   *)
(* and whenever the running flag is true a device handle is present.       *)
C31_RunningFlag ==
    /\ [](scanning # <<>> =>
            /\ (LastScanning.op = "start_scanning" /\ ~LastScanning.raised) => _running
            /\ (LastScanning.op = "start_scanning" /\ LastScanning.raised) => ~_running
            /\ LastScanning.op = "stop_scanning" => ~_running)
    /\ [](_running => _device # "None")
    /\ [][(_running /\ ~_running') => scanning'[Len(scanning')].op = "stop_scanning"]_vars

C31_Witness ==
    /\ Len(scanning) = 4
    /\ scanning[1] = [op |-> "start_scanning", raised |-> TRUE]
    /\ scanning[2] = [op |-> "start_scanning", raised |-> FALSE]
    /\ scanning[3] = [op |-> "start_scanning", raised |-> FALSE]
    /\ scanning[4] = [op |-> "stop_scanning", raised |-> FALSE]
    /\ _device = "unconfigured"
    /\ ~_running

(* the position of a kind in the order the claim gives *)
KindOrder == <<GHOST_ECHO, VOID_PULSE, STATIC_BURST, FREQ_SHIFT, PATTERN>>
KindIndex(type) == CHOOSE i \in DOMAIN KindOrder : KindOrder[i] = type

(* C32: the list returned by detect_anomalies contains at most one anomaly *)
(* of each kind, and the kinds appear in the fixed order GhostEcho,        *)
(* VoidPulse, StaticBurst, FrequencyShift, SignalPattern regardless of     *)
(* input and history.                                                      *)
C32_OnePerKindInOrder ==
    /\ \A i \in DOMAIN returned : returned[i].type \in AnomalyType
    /\ \A type \in AnomalyType : Count(type) <= 1
    /\ \A i, j \in DOMAIN returned :
          i < j => KindIndex(returned[i].type) < KindIndex(returned[j].type)

C32_Witness ==
    /\ Len(inserted) = 2
    /\ outcome = "returned"
    /\ Len(returned) = 2
    /\ returned[1].type = GHOST_ECHO
    /\ returned[2].type = PATTERN

----------------------------------------------------------------------------
(* Reading the state of a send_alert call *)

InSend == send # NoManager /\ send.at \in {"post", "sleep", "returned", "raised"}
IsPost(e) == e \in {"post_ok", "post_failed"}

C39_TimestampFrame ==
    /\ [](InSend =>
            last_alert_time = IF send.throttled THEN send.last0
                              ELSE Stamp(send.last0, send.type, send.time0))
    /\ [][last_alert_time' # last_alert_time =>
            /\ send # NoManager
            /\ send'.calls = send.calls + 1
            /\ ~send'.throttled
            /\ last_alert_time' = Stamp(last_alert_time, send'.type, now)]_vars

C39_Witness ==
    /\ InSend
    /\ send.calls = 2
    /\ send.throttled
    /\ send.time0 = StartTime + 59
    /\ last_alert_time[send.type] = StartTime

(* C34: once the shutdown handler has set the running flag to false, the   *)
(* scan loop starts no further frequency scan after it next checks the     *)
(* flag, and run() eventually returns provided the scan in progress        *)
(* returns; the flag never becomes true again.                             *)
C34_ShutdownStopsLoop ==
    /\ [][(~running) => ~running']_vars
    /\ [][(run.at # "scan" /\ run'.at = "scan") => ~run.seen_false]_vars
    /\ (~running) ~> (run.at = "returned")

(* the current operation holds a calibration transfer that raised *)
CalibrationFailed ==
    \E i \in DOMAIN bus :
        /\ IsStrobe(bus[i], CC1101_SCAL) \/ IsRead(bus[i], CC1101_MARCSTATE)
        /\ ~bus[i].ok

(* C35: the last-calibration time is updated only after the status         *)
(* register has reported idle: a calibration attempt that fails with a bus *)
(* error leaves it unchanged, so the next scan_frequency attempts          *)
(* calibration again.                                                      *)
C35_StampOnlyAfterIdle ==
    /\ [][_last_calibration' # _last_calibration =>
            /\ _last_calibration' = now
            /\ \E i \in DOMAIN bus' :
                  /\ IsRead(bus'[i], CC1101_MARCSTATE)
                  /\ bus'[i].ok /\ bus'[i].resp = MarcstateIdle]_vars
    /\ [][CalibrationFailed' => _last_calibration' = _last_calibration]_vars
    /\ [][(pc = "ready" /\ CalibrationFailed
             /\ call'.op = "scan_frequency" /\ now' = now)
            => (Len(bus') > 0 /\ IsStrobe(bus'[1], CC1101_SCAL))]_vars

C35_Witness ==
    /\ ScanReturned
    /\ CalibrationFailed
    /\ call.time0 = 1301
    /\ call.elapsed0 = 301
    /\ _last_calibration = StartTime
    /\ IsStrobe(bus[1], CC1101_SCAL)

(* the inputs of the current operation are in the ranges the claim names *)
InputsInRange ==
    /\ call.op = "__init__" => (~RateOut /\ ~DeviationOut)
    /\ call.op \in {"scan_frequency", "set_frequency"} => ClaimedBand(call.arg)

(* C36: every value passed to a register write during configuration and    *)
(* tuning is an 8-bit value in 0..255, for every data rate in 0.6-500      *)
(* kbps, every deviation in 1.587-380 kHz and every in-band frequency.     *)
C36_RegisterValuesAreBytes ==
    (call.op \in {"__init__", "scan_frequency", "set_frequency"} /\ InputsInRange)
        => \A i \in DOMAIN bus :
              (IsConfigWrite(bus[i]) \/ IsFreqWrite(bus[i]))
                 => (0 <= bus[i].bytes[2] /\ bus[i].bytes[2] <= 255)

(* the bus command of a power mode *)
CommandOf(mode) ==
    CASE mode = "sleep" -> CC1101_SPWD
      [] mode = "idle" -> CC1101_SIDLE
      [] OTHER -> CC1101_SRX

(* C37: the driver's recorded power mode is always one of sleep, idle,     *)
(* active, and it changes only in a set_power_mode call that issues the    *)
(* matching bus command (power-down, idle, RX-enable); a call with any     *)
(* other mode string issues no command and leaves the recorded mode        *)
(* unchanged.                                                              *)
C37_PowerModeTracksCommands ==
    /\ [](pc # "uninit" => _power_mode \in {"sleep", "idle", "active"})
    /\ [][(pc # "uninit" /\ _power_mode' # _power_mode) =>
            \E i \in DOMAIN bus' :
               IsStrobe(bus'[i], CommandOf(_power_mode')) /\ bus'[i].ok]_vars
    /\ [][(pc = "ready" /\ now' = now /\ call'.op = "set_power_mode"
             /\ call'.arg \notin {"sleep", "idle", "active"})
            => (bus' = <<>> /\ _power_mode' = call'.mode0)]_vars

(* C38: close() never raises and, whenever it returns, the bus handle has  *)
(* been closed, with the power-down command issued before the close when   *)
(* the driver was not already in sleep; this holds also when issuing the   *)
(* power-down command fails with a bus error.                              *)
C38_CloseAlwaysCloses ==
    call.op = "close"
        => /\ result.tag = "returned"
           /\ pc = "closed"
           /\ call.mode0 # "sleep"
                 => (Len(bus) = 1 /\ IsStrobe(bus[1], CC1101_SPWD))

(* the scan sent RX-enable *)
RxEnabled == \E i \in DOMAIN bus : IsStrobe(bus[i], CC1101_SRX) /\ bus[i].ok

(* C40: whenever scan_frequency returns a failure after having issued      *)
(* RX-enable (for example a bus error during the sample loop), the driver  *)
(* has been returned to idle before returning: the receiver is never left  *)
(* in active mode between scans.                                           *)
C40_FailedScanReturnsToIdle ==
    (ScanReturned /\ result.tag = "None" /\ RxEnabled)
        => /\ _power_mode = "idle"
           /\ \E i, j \in DOMAIN bus :
                 /\ i < j
                 /\ IsStrobe(bus[i], CC1101_SRX) /\ bus[i].ok
                 /\ IsStrobe(bus[j], CC1101_SIDLE) /\ bus[j].ok

====
